---- MODULE Spec2Model ----
(***************************************************************************)
(* Verification model of the hybrid ranked-search pipeline of server.js:   *)
(* query normalisation, stable identity, name de-duplication, hybrid score *)
(* fusion, MMR diversification and cursor pagination, and of the clients   *)
(* around it: the embedding client with its retries and batch splitting,   *)
(* the query-embedding cache, the hedged embedding request, the retrying   *)
(* sheet operations, ensureCollection and the /indexVectors run.           *)
(*                                                                         *)
(* Strings are sequences of one-character strings, so that trimming,       *)
(* lower-casing, splitting, regular-expression replacement and substring   *)
(* tests are computed as the JavaScript code computes them.  Scores are    *)
(* integers in hundredths (0.30 is 30); the rounding of IEEE doubles is    *)
(* not modelled.                                                           *)
(***************************************************************************)
EXTENDS Integers, Sequences, FiniteSets, TLC

VARIABLES
    nqPc,       \* normalizeQuery harness: "start" | "once" | "twice"
    nqRaw,      \* the raw query string handed to normalizeQuery
    nqOnce,     \* normalizeQuery(nqRaw)
    nqTwice,    \* normalizeQuery(normalizeQuery(nqRaw))
    idPc,       \* identity harness: "idle" | "start" | "done"
    idA,        \* first catalog record
    idB,        \* second catalog record
    idOfA,      \* stableIdForOrder(idA)
    idOfB,      \* stableIdForOrder(idB)
    ddPc,       \* de-duplication harness: "idle" | "start" | "done"
    ddIn,       \* the scored items handed to dedupeByTeamNameScore
    ddOut,      \* its result
    fsPc,       \* fusion harness: "idle" | "start" | "done"
    fsQuery,    \* the raw query
    fsA,        \* candidate record A
    fsB,        \* candidate record B
    fsSem,      \* the semantic score both candidates come with
    fsEndpoint, \* the endpoint that re-ranked
    fsScoreA,   \* fused score of A
    fsScoreB,   \* fused score of B
    mmPc,       \* diversifier harness: "idle" | "start" | "done"
    mmItems,    \* the score-sorted items handed to mmrDiversifyOrder
    mmK,        \* its K
    mmLambda,   \* its lambda, in tenths
    mmOut,      \* its result
    store,      \* vector-store snapshot: the hits for the query, best first
    env,        \* which of the provider settings the process was started with
    sqQuery,    \* the raw query the client searches for
    sqLimit,    \* the limit the client sends (0: none)
    srResp,     \* the last response of POST /search or GET /search
    pgPages,    \* the /searchPaged responses of the client's cursor chain
    upCalls,    \* the upstream calls the last search request made, in order
    emPc,       \* embedding-client harness: "idle" | "start" | "done"
    emTexts,    \* the texts handed to the client
    emKey,      \* JINA_API_KEY is set
    emBad,      \* the texts the provider rejects permanently (status 400)
    emScript,   \* the provider's answers to the first requests, else 200
    emCall,     \* the client function that ran: "embedText" | "embedBatch"
    emOut,      \* its outcome: the vectors or the error, and the requests issued
    rtPc,       \* retrying operation: "idle" | "running" | "returned" | "thrown"
    rtOp,       \* which one: fetchSheetWithRetry | batchWriteValues | embedText
    rtChunks,   \* batchWriteValues: the number of chunks of the updates
    rtChunk,    \* batchWriteValues: the chunk being written
    rtAttempt,  \* the loop counter (i, or attempt)
    rtCount,    \* requests issued so far (batchWriteValues: for the current chunk)
    rtLast,     \* the status of the last request (-1: none yet)
    rtRetried,  \* the statuses after which the operation went for another attempt
    ixPc,       \* indexing harness: "idle" | "ready"
    ixCatalog,  \* the catalog sheet: the records, in row order
    ixPoints,   \* the points of the vector-store collection
    ixBad,      \* the team names whose search text the provider rejects (400)
    ixBatch,    \* Number(process.env.EMB_BATCH || 32)
    ixResp,     \* the response of the last /indexVectors run
    ixEdits,    \* catalog edits made so far
    ixRuns,     \* /indexVectors runs made so far
    ecCache,    \* _EMB_CACHE: the entries of the Map, in insertion order
    ecNow,      \* Date.now(), in minutes
    ecPending,  \* the embedTextCached calls waiting for embedText: id and key
    ecCalls,    \* embedTextCached calls made so far
    ecSeq,      \* keys inserted into the Map so far
    ecLast,     \* the last lookup: its key, whether it hit, the entry returned
    ecEvicted,  \* the last eviction: the entry removed and what it left behind
    ecReturned, \* what the last finished embedTextCached call returned, and for which q
    hgPc,       \* embedTextHedged: "idle" | "racing" | "fresh" | "returned" | "thrown"
    hgReq,      \* its requests A, B, F: "none" | "inflight" | "aborted" | the status
    hgTimer,    \* startBTimer: "armed" | "fired" | "cleared"
    hgJoin,     \* the race's own timer of hedgeDelayMs + 1: "waiting" | "fired"
    hgStartedB, \* startedB
    enExists,   \* the collection exists in the vector store
    enPc,       \* ensureCollection: "idle" | "get" | "put" | "done"
    enLog,      \* the requests of the calls so far: method, status, existed
    enResult,   \* the outcome of the last call: "none" | "true" | "thrown"
    enCalls,    \* ensureCollection calls started so far
    sdPc,       \* trigger harness: "idle" | "start" | "done"
    sdItems,    \* the items handed to shouldDiversify
    sdTopN,     \* its checkTopN
    sdThreshold,\* its simThreshold, in hundredths
    sdOut,      \* its result
    odSheet,    \* the catalog sheet: the number of writes applied to it
    odCache,    \* cacheOrders: { data, ts }, data as the sheet version read
    odNow,      \* now(), in seconds
    odReqs,     \* the requests in flight: id, kind, pc, version read, acked at start
    odAcked,    \* the newest write a success response has been sent for
    odAnswers,  \* the answers given to /orders and /ordersPaged requests
    odReads,    \* /orders and /ordersPaged requests started so far
    odWrites,   \* /updateTeam and /addTeam requests started so far
    ccCorpus,   \* cursor-chain harness: the points of the store and how many share a name
    ccLimit,    \* the limit the client sends with every request
    ccLast,     \* the envelope of the last /searchPaged response
    ccRequests  \* /searchPaged requests made so far

normVars == <<nqPc, nqRaw, nqOnce, nqTwice>>
identVars == <<idPc, idA, idB, idOfA, idOfB>>
dedupeVars == <<ddPc, ddIn, ddOut>>
fuseVars == <<fsPc, fsQuery, fsA, fsB, fsSem, fsEndpoint, fsScoreA, fsScoreB>>
mmrVars == <<mmPc, mmItems, mmK, mmLambda, mmOut>>
searchVars == <<store, env, sqQuery, sqLimit, srResp, pgPages, upCalls>>

embedVars == <<emPc, emTexts, emKey, emBad, emScript, emCall, emOut>>

pipelineVars == <<normVars, identVars, dedupeVars, fuseVars, mmrVars, searchVars>>
retryVars == <<rtPc, rtOp, rtChunks, rtChunk, rtAttempt, rtCount, rtLast, rtRetried>>
indexVars == <<ixPc, ixCatalog, ixPoints, ixBad, ixBatch, ixResp, ixEdits, ixRuns>>
cacheVars == <<ecCache, ecNow, ecPending, ecCalls, ecSeq, ecLast, ecEvicted, ecReturned>>
hedgeVars == <<hgPc, hgReq, hgTimer, hgJoin, hgStartedB>>
ensureVars == <<enExists, enPc, enLog, enResult, enCalls>>
clientVars == <<embedVars, retryVars, indexVars, cacheVars, hedgeVars, ensureVars>>

triggerVars == <<sdPc, sdItems, sdTopN, sdThreshold, sdOut>>
ordersVars == <<odSheet, odCache, odNow, odReqs, odAcked, odAnswers, odReads, odWrites>>
chainVars == <<ccCorpus, ccLimit, ccLast, ccRequests>>
auxVars == <<triggerVars, ordersVars, chainVars>>

vars == <<pipelineVars, clientVars, auxVars>>

\* process.env settings of the embedding provider and the vector store
ProviderSettings == { "QDRANT_URL", "QDRANT_API_KEY", "JINA_API_KEY" }

\* Boolean(QDRANT_URL && QDRANT_API_KEY && JINA_API_KEY)
vectorsEnabled(e) == e["QDRANT_URL"] /\ e["QDRANT_API_KEY"] /\ e["JINA_API_KEY"]

\* next_cursor: null, and the absent cursor of a first request
Null == <<>>

\* no response received yet
NoResponse == [endpoint |-> "none", status |-> 0, items |-> <<>>, diversified |-> FALSE]

(***************************************************************************)
(* JavaScript string primitives                                            *)
(***************************************************************************)

\* A string literal as a sequence of one-character strings.
Chars(s) == [i \in 1..Len(s) |-> SubSeq(s, i, i)]

LowerLetters == Chars("abcdefghijklmnopqrstuvwxyz")
UpperLetters == Chars("ABCDEFGHIJKLMNOPQRSTUVWXYZ")
Digits == Chars("0123456789")

Range(f) == {f[i] : i \in DOMAIN f}

LowerAlnumChars == Range(LowerLetters) \cup Range(Digits)
WordChars == Range(LowerLetters) \cup Range(UpperLetters) \cup Range(Digits) \cup {"_"}
SpaceChars == {" ", "\t", "\n"}

\* [a-z0-9]
IsLowerAlnum(c) == c \in LowerAlnumChars

\* \w of a JavaScript regular expression: [A-Za-z0-9_]
IsWordChar(c) == c \in WordChars

\* White space removed by String.prototype.trim and matched by \s
IsSpace(c) == c \in SpaceChars

LowerOf == [c \in Range(UpperLetters) |-> LowerLetters[CHOOSE i \in 1..26 : UpperLetters[i] = c]]
UpperOf == [c \in Range(LowerLetters) |-> UpperLetters[CHOOSE i \in 1..26 : LowerLetters[i] = c]]

LowerChar(c) == IF c \in DOMAIN LowerOf THEN LowerOf[c] ELSE c

UpperChar(c) == IF c \in DOMAIN UpperOf THEN UpperOf[c] ELSE c

\* String.prototype.toLowerCase / toUpperCase
ToLowerCase(s) == [i \in 1..Len(s) |-> LowerChar(s[i])]
ToUpperCase(s) == [i \in 1..Len(s) |-> UpperChar(s[i])]

RECURSIVE TrimStart(_)
TrimStart(s) ==
    IF s = <<>> THEN <<>>
    ELSE IF IsSpace(Head(s)) THEN TrimStart(Tail(s)) ELSE s

RECURSIVE TrimEnd(_)
TrimEnd(s) ==
    IF s = <<>> THEN <<>>
    ELSE IF IsSpace(s[Len(s)]) THEN TrimEnd(SubSeq(s, 1, Len(s) - 1)) ELSE s

\* String.prototype.trim
Trim(s) == TrimEnd(TrimStart(s))

\* s.startsWith(p, i) with a 1-based position
MatchesAt(s, p, i) ==
    /\ i >= 1
    /\ i + Len(p) - 1 <= Len(s)
    /\ \A k \in 1..Len(p) : s[i + k - 1] = p[k]

\* String.prototype.includes
Includes(s, p) == \E i \in 1..(Len(s) + 1) : MatchesAt(s, p, i)

\* \b between position i-1 and position i of s (1-based, 1 <= i <= Len(s)+1)
WordBoundaryAt(s, i) ==
    LET before == i > 1 /\ IsWordChar(s[i - 1])
        after  == i <= Len(s) /\ IsWordChar(s[i])
    IN  before # after

\* s.replace(/\b<p>\b/g, r): every non-overlapping, word-bounded occurrence of p,
\* scanned left to right on the original string.
RECURSIVE ReplaceWordBounded(_, _, _, _)
ReplaceWordBounded(s, p, r, i) ==
    IF i > Len(s) THEN <<>>
    ELSE IF /\ MatchesAt(s, p, i)
            /\ WordBoundaryAt(s, i)
            /\ WordBoundaryAt(s, i + Len(p))
         THEN r \o ReplaceWordBounded(s, p, r, i + Len(p))
         ELSE <<s[i]>> \o ReplaceWordBounded(s, p, r, i + 1)

\* s.replace(/[-_]+/g, ' '): each run of hyphens and underscores becomes one space.
RECURSIVE ReplaceDashRuns(_, _)
ReplaceDashRuns(s, i) ==
    IF i > Len(s) THEN <<>>
    ELSE IF s[i] \in {"-", "_"}
         THEN IF i > 1 /\ s[i - 1] \in {"-", "_"}
              THEN ReplaceDashRuns(s, i + 1)
              ELSE <<" ">> \o ReplaceDashRuns(s, i + 1)
         ELSE <<s[i]>> \o ReplaceDashRuns(s, i + 1)

\* s.split(/[^a-z0-9]+/).filter(Boolean): the maximal runs of [a-z0-9], in order.
RECURSIVE SplitAlnum(_, _, _)
SplitAlnum(s, i, cur) ==
    IF i > Len(s)
    THEN IF cur = <<>> THEN <<>> ELSE <<cur>>
    ELSE IF IsLowerAlnum(s[i])
         THEN SplitAlnum(s, i + 1, Append(cur, s[i]))
         ELSE (IF cur = <<>> THEN <<>> ELSE <<cur>>) \o SplitAlnum(s, i + 1, <<>>)

\* arr.join(sep)
RECURSIVE Join(_, _)
Join(arr, sep) ==
    IF arr = <<>> THEN <<>>
    ELSE IF Len(arr) = 1 THEN arr[1]
    ELSE arr[1] \o sep \o Join(Tail(arr), sep)

\* arr.filter(keep), for a sequence and a set of kept values' complement
RECURSIVE FilterOut(_, _)
FilterOut(arr, drop) ==
    IF arr = <<>> THEN <<>>
    ELSE IF Head(arr) \in drop THEN FilterOut(Tail(arr), drop)
    ELSE <<Head(arr)>> \o FilterOut(Tail(arr), drop)

(***************************************************************************)
(* Query normaliser                                                        *)
(***************************************************************************)

STOPWORDS ==
    { Chars("i"), Chars("me"), Chars("my"), Chars("we"), Chars("our"),
      Chars("need"), Chars("want"), Chars("a"), Chars("an"), Chars("the"),
      Chars("team"), Chars("for"), Chars("to"), Chars("please"),
      Chars("looking"), Chars("search"), Chars("find"), Chars("build"),
      Chars("hire") }

\* The `base` of normalizeQuery: lower-case, unify ci/cd and cicd, dashes to spaces.
normalizeBase(q) ==
    ReplaceDashRuns(
        ReplaceWordBounded(
            ReplaceWordBounded(ToLowerCase(q), Chars("ci/cd"), Chars("ci cd"), 1),
            Chars("cicd"), Chars("ci cd"), 1),
        1)

\* a || b on strings: the empty string is falsy
OrElse(a, b) == IF a # <<>> THEN a ELSE b

\* normalizeQuery without its fallback chain: the filtered tokens only.
normalizeQueryNoFallback(q) ==
    Trim(Join(FilterOut(SplitAlnum(normalizeBase(q), 1, <<>>), STOPWORDS), <<" ">>))

normalizeQuery(q) ==
    LET base     == normalizeBase(q)
        toks     == SplitAlnum(base, 1, <<>>)
        filtered == FilterOut(toks, STOPWORDS)
    IN  OrElse(Trim(Join(filtered, <<" ">>)), OrElse(Trim(base), Trim(q)))

(***************************************************************************)
(* Harness of the normaliser: a caller normalises a raw query and then     *)
(* normalises the result again.                                            *)
(***************************************************************************)

MaxRawLen == 5

RawAlphabet == {"c", "i", "d", "I", "/", "_", "-", " "}

RawQueries == UNION { [1..n -> RawAlphabet] : n \in 0..MaxRawLen }

NormIdle ==
    /\ nqPc = "idle"
    /\ nqRaw = <<>>
    /\ nqOnce = <<>>
    /\ nqTwice = <<>>

IdentIdle ==
    /\ idPc = "idle"
    /\ idA = <<>>
    /\ idB = <<>>
    /\ idOfA = <<>>
    /\ idOfB = <<>>

DedupeIdle ==
    /\ ddPc = "idle"
    /\ ddIn = <<>>
    /\ ddOut = <<>>

FuseIdle ==
    /\ fsPc = "idle"
    /\ fsQuery = <<>>
    /\ fsA = <<>>
    /\ fsB = <<>>
    /\ fsSem = 0
    /\ fsEndpoint = "none"
    /\ fsScoreA = 0
    /\ fsScoreB = 0

MmrIdle ==
    /\ mmPc = "idle"
    /\ mmItems = <<>>
    /\ mmK = 0
    /\ mmLambda = 0
    /\ mmOut = <<>>

SearchIdle ==
    /\ store = <<>>
    /\ env = [v \in ProviderSettings |-> FALSE]
    /\ sqQuery = <<>>
    /\ sqLimit = 0
    /\ srResp = NoResponse
    /\ pgPages = <<>>
    /\ upCalls = <<>>

PipelineIdle == NormIdle /\ IdentIdle /\ DedupeIdle /\ FuseIdle /\ MmrIdle /\ SearchIdle

\* no client function has run: no requests, no outcome
NoOutcome == [ok |-> FALSE, vectors |-> <<>>, reqs |-> <<>>, error |-> 0]

EmbedIdle ==
    /\ emPc = "idle"
    /\ emTexts = <<>>
    /\ emKey = FALSE
    /\ emBad = {}
    /\ emScript = <<>>
    /\ emCall = "none"
    /\ emOut = NoOutcome

RetryIdle ==
    /\ rtPc = "idle"
    /\ rtOp = "none"
    /\ rtChunks = 0
    /\ rtChunk = 0
    /\ rtAttempt = 0
    /\ rtCount = 0
    /\ rtLast = -1
    /\ rtRetried = {}

\* no /indexVectors run has answered yet
NoRun == [status |-> 0, upserted |-> 0, fault |-> "none", script |-> <<>>]

IndexIdle ==
    /\ ixPc = "idle"
    /\ ixCatalog = <<>>
    /\ ixPoints = {}
    /\ ixBad = {}
    /\ ixBatch = 0
    /\ ixResp = NoRun
    /\ ixEdits = 0
    /\ ixRuns = 0

CacheIdle ==
    /\ ecCache = <<>>
    /\ ecNow = 0
    /\ ecPending = {}
    /\ ecCalls = 0
    /\ ecSeq = 0
    /\ ecLast = Null
    /\ ecEvicted = Null
    /\ ecReturned = Null

HedgeRequests == { "A", "B", "F" }

HedgeIdle ==
    /\ hgPc = "idle"
    /\ hgReq = [r \in HedgeRequests |-> "none"]
    /\ hgTimer = "cleared"
    /\ hgJoin = "fired"
    /\ hgStartedB = FALSE

EnsureIdle ==
    /\ enExists = FALSE
    /\ enPc = "idle"
    /\ enLog = <<>>
    /\ enResult = "none"
    /\ enCalls = 0

ClientIdle == EmbedIdle /\ RetryIdle /\ IndexIdle /\ CacheIdle /\ HedgeIdle /\ EnsureIdle

TriggerIdle ==
    /\ sdPc = "idle"
    /\ sdItems = <<>>
    /\ sdTopN = 0
    /\ sdThreshold = 0
    /\ sdOut = FALSE

\* no rows: the null of cacheOrders.data, and rows not read yet
NoRows == -1

\* let cacheOrders = { data: null, ts: 0 }
EmptyOrdersCache == [data |-> NoRows, ts |-> 0]

OrdersIdle ==
    /\ odSheet = 0
    /\ odCache = EmptyOrdersCache
    /\ odNow = 0
    /\ odReqs = {}
    /\ odAcked = 0
    /\ odAnswers = {}
    /\ odReads = 0
    /\ odWrites = 0

\* no /searchPaged response received yet
NoEnvelope == [status |-> 0, page |-> 0, count |-> 0, next_cursor |-> Null, total_estimate |-> 0]

ChainIdle ==
    /\ ccCorpus = [points |-> 0, perName |-> 1]
    /\ ccLimit = 0
    /\ ccLast = NoEnvelope
    /\ ccRequests = 0

AuxIdle == TriggerIdle /\ OrdersIdle /\ ChainIdle

NormInit ==
    /\ nqPc = "start"
    /\ nqRaw \in RawQueries
    /\ nqOnce = <<>>
    /\ nqTwice = <<>>
    /\ IdentIdle
    /\ DedupeIdle
    /\ FuseIdle
    /\ MmrIdle
    /\ SearchIdle
    /\ ClientIdle
    /\ AuxIdle

Normalize ==
    /\ nqPc = "start"
    /\ nqOnce' = normalizeQuery(nqRaw)
    /\ nqPc' = "once"
    /\ UNCHANGED <<nqRaw, nqTwice, identVars, dedupeVars, fuseVars, mmrVars, searchVars>>
    /\ UNCHANGED <<clientVars, auxVars>>

Renormalize ==
    /\ nqPc = "once"
    /\ nqTwice' = normalizeQuery(nqOnce)
    /\ nqPc' = "twice"
    /\ UNCHANGED <<nqRaw, nqOnce, identVars, dedupeVars, fuseVars, mmrVars, searchVars>>
    /\ UNCHANGED <<clientVars, auxVars>>

NormNext == Normalize \/ Renormalize

SpecNorm == NormInit /\ [][NormNext]_vars

\* C5: normalizeQuery is idempotent: normalising a normalised query changes nothing.
C5_Idempotent == nqPc = "twice" => nqTwice = nqOnce

\* C6 as stated: every non-empty input string normalises to a non-empty string.
C6_NonEmptyForNonEmpty == (nqPc = "once" /\ nqRaw # <<>>) => nqOnce # <<>>

AllTokensStopwords(q) ==
    LET toks == SplitAlnum(normalizeBase(q), 1, <<>>)
    IN  toks # <<>> /\ \A k \in 1..Len(toks) : toks[k] \in STOPWORDS

\* C6 (amended): every input with a non-white-space character normalises to a
\* non-empty string; an all-stopword input yields the unfiltered lower-cased,
\* dash-normalised string; an input made of dashes only yields the raw trimmed input.
C6_NonEmptyForNonBlank ==
    nqPc = "once" =>
        /\ (Trim(nqRaw) # <<>> => nqOnce # <<>>)
        /\ (AllTokensStopwords(nqRaw) =>
                /\ nqOnce = Trim(normalizeBase(nqRaw))
                /\ SplitAlnum(nqOnce, 1, <<>>) = SplitAlnum(ToLowerCase(nqRaw), 1, <<>>))
        /\ (Trim(normalizeBase(nqRaw)) = <<>> => nqOnce = Trim(nqRaw))

\* An all-stopword query ("i i") has been normalised through the first fallback.
C6_Witness ==
    /\ nqPc = "once"
    /\ nqRaw = Chars("i-I")
    /\ nqOnce = Chars("i i")

(***************************************************************************)
(* Catalog records and stable identity                                     *)
(***************************************************************************)

\* A catalog record ("order"): the sheet columns the search core reads.  Every
\* column is a string; a missing column reads as the empty string.
OrderFields ==
    { "timestamp", "TeamName", "Type", "Type2", "Textarea", "partner",
      "Partner_confirmation", "X1Q", "industrymarket_expertise",
      "spcv1", "spcv2", "spcv3", "spcv4", "spcv5",
      "spcv6", "spcv7", "spcv8", "spcv9", "spcv10" }

EmptyOrder == [f \in OrderFields |-> <<>>]

\* S = v => String(v || '').trim().toLowerCase()
NormField(v) == ToLowerCase(Trim(v))

\* stableKeyFromOrder with the partner column left out of the key
stableKeyWithoutPartner(o) ==
    Join(<< NormField(o.timestamp), NormField(o.TeamName), NormField(o.Type),
            NormField(o.Type2) >>, <<"|">>)

stableKeyFromOrder(o) ==
    Join(<< NormField(o.timestamp), NormField(o.TeamName), NormField(o.Type),
            NormField(o.Type2), NormField(o.partner) >>, <<"|">>)

\* sha256(key).digest('hex').slice(0, 32), taken as collision-free: the id is
\* the key under an injective tag.
stableIdForOrder(o) == <<"sha256">> \o stableKeyFromOrder(o)

(***************************************************************************)
(* Harness of the identity: the ids of two catalog records are computed.   *)
(***************************************************************************)

IdFieldValues == { <<>>, Chars("a"), Chars("A "), Chars("|") }
IdShortValues == { <<>>, Chars("a") }

IdOrders ==
    { [EmptyOrder EXCEPT !.timestamp = ts, !.TeamName = tn, !.Type = t1,
                         !.Type2 = t2, !.partner = pa, !.Textarea = tx] :
        ts \in IdShortValues, tn \in IdShortValues, t1 \in IdFieldValues,
        t2 \in IdShortValues, pa \in IdFieldValues, tx \in IdShortValues }

IdentInit ==
    /\ idPc = "start"
    /\ idA \in IdOrders
    /\ idB \in IdOrders
    /\ idOfA = <<>>
    /\ idOfB = <<>>
    /\ NormIdle
    /\ DedupeIdle
    /\ FuseIdle
    /\ MmrIdle
    /\ SearchIdle
    /\ ClientIdle
    /\ AuxIdle

ComputeIds ==
    /\ idPc = "start"
    /\ idOfA' = stableIdForOrder(idA)
    /\ idOfB' = stableIdForOrder(idB)
    /\ idPc' = "done"
    /\ UNCHANGED <<idA, idB, normVars, dedupeVars, fuseVars, mmrVars, searchVars>>
    /\ UNCHANGED <<clientVars, auxVars>>

IdentNext == ComputeIds

SpecIdent == IdentInit /\ [][IdentNext]_vars

IdTupleFields == <<"timestamp", "TeamName", "Type", "Type2", "partner">>

SameTuple(a, b) == \A k \in 1..5 : a[IdTupleFields[k]] = b[IdTupleFields[k]]

\* the number of tuple fields in which a and b differ after trim and lower-casing
NormDiffCount(a, b) ==
    Cardinality({ k \in 1..5 : NormField(a[IdTupleFields[k]]) # NormField(b[IdTupleFields[k]]) })

\* C7 as stated: identical tuples get identical ids, and tuples that differ in
\* any field get different ids.
C7_AnyFieldChangeChangesId ==
    idPc = "done" =>
        /\ (SameTuple(idA, idB) => idOfA = idOfB)
        /\ (~SameTuple(idA, idB) => idOfA # idOfB)

\* C7 (amended): identical tuples get identical ids whatever the other columns
\* hold, and tuples that differ in exactly one field, after trimming and
\* lower-casing, get different ids.
C7_OneNormalizedFieldChangeChangesId ==
    idPc = "done" =>
        /\ (SameTuple(idA, idB) => idOfA = idOfB)
        /\ (NormDiffCount(idA, idB) = 1 => idOfA # idOfB)

\* Two records that differ in the partner column only have got their ids.
C7_Witness ==
    /\ idPc = "done"
    /\ NormDiffCount(idA, idB) = 1
    /\ NormField(idA.partner) # NormField(idB.partner)
    /\ idA.Textarea # idB.Textarea
    /\ idOfA # idOfB

(***************************************************************************)
(* De-duplication by team name                                             *)
(*                                                                         *)
(* A scored item is { ...payload, __score }: the record and its score.     *)
(***************************************************************************)

Item(o, sc) == [payload |-> o, score |-> sc]

\* key = String(it.TeamName || '').trim().toLowerCase() || stableKeyFromOrder(it)
dedupeKey(it) == OrElse(ToLowerCase(Trim(it.payload.TeamName)), stableKeyFromOrder(it.payload))

\* Map.get: the position of key k in the entries, 0 when absent
MapIndex(entries, k) ==
    IF \E j \in 1..Len(entries) : entries[j].key = k
    THEN CHOOSE j \in 1..Len(entries) : entries[j].key = k
    ELSE 0

\* A later item of a group never replaces the one already kept (first-seen wins).
NeverReplacesPrev(it, prev) == FALSE

\* !prev || (it.__score || 0) > (prev.__score || 0), for an existing prev
ReplacesPrev(it, prev) == it.score > prev.score

\* The loop of dedupeByTeamNameScore over items[i..], on a Map kept as its
\* entries in insertion order.
RECURSIVE dedupeLoop(_, _, _)
dedupeLoop(items, i, entries) ==
    IF i > Len(items) THEN entries
    ELSE LET it  == items[i]
             key == dedupeKey(it)
             j   == MapIndex(entries, key)
         IN  IF j = 0
             THEN dedupeLoop(items, i + 1, Append(entries, [key |-> key, val |-> it]))
             ELSE IF ReplacesPrev(it, entries[j].val)
                  THEN dedupeLoop(items, i + 1, [entries EXCEPT ![j].val = it])
                  ELSE dedupeLoop(items, i + 1, entries)

dedupeByTeamNameScore(items) ==
    LET entries == dedupeLoop(items, 1, <<>>)
    IN  [j \in 1..Len(entries) |-> entries[j].val]

(***************************************************************************)
(* Lexical helpers of the fusion engine                                    *)
(***************************************************************************)

\* s.split(ch): the pieces between occurrences of ch, empty pieces included
RECURSIVE SplitOnChar(_, _, _, _)
SplitOnChar(s, ch, i, cur) ==
    IF i > Len(s) THEN <<cur>>
    ELSE IF s[i] = ch
         THEN <<cur>> \o SplitOnChar(s, ch, i + 1, <<>>)
         ELSE SplitOnChar(s, ch, i + 1, Append(cur, s[i]))

\* arr.map(x => x.trim()).filter(Boolean)
RECURSIVE TrimAndDropEmpty(_)
TrimAndDropEmpty(arr) ==
    IF arr = <<>> THEN <<>>
    ELSE IF Trim(Head(arr)) = <<>> THEN TrimAndDropEmpty(Tail(arr))
    ELSE <<Trim(Head(arr))>> \o TrimAndDropEmpty(Tail(arr))

\* Array.from(new Set(arr)): first occurrences, in order
RECURSIVE Uniq(_)
Uniq(arr) ==
    IF arr = <<>> THEN <<>>
    ELSE LET init == Uniq(SubSeq(arr, 1, Len(arr) - 1))
             last == arr[Len(arr)]
         IN  IF last \in Range(init) THEN init ELSE Append(init, last)

\* _tokens(s): lower-case, split on non-alphanumeric runs
_tokens(s) == SplitAlnum(ToLowerCase(s), 1, <<>>)

\* _csvParts(s) and _splitCSVExact(s): split on commas, trim, drop empties
_csvParts(s) == TrimAndDropEmpty(SplitOnChar(s, ",", 1, <<>>))

\* _acronym(s) and _acronymExact(s): first letters of the alphanumeric words
\* (split case-insensitively), joined and upper-cased
_acronym(s) ==
    LET words == SplitAlnum(ToLowerCase(s), 1, <<>>)
    IN  ToUpperCase([k \in 1..Len(words) |-> words[k][1]])

\* s.replace(/\s+/g, ' ')
RECURSIVE CollapseSpaces(_, _)
CollapseSpaces(s, i) ==
    IF i > Len(s) THEN <<>>
    ELSE IF IsSpace(s[i])
         THEN IF i > 1 /\ IsSpace(s[i - 1])
              THEN CollapseSpaces(s, i + 1)
              ELSE <<" ">> \o CollapseSpaces(s, i + 1)
         ELSE <<s[i]>> \o CollapseSpaces(s, i + 1)

\* _normExact(s)
_normExact(s) == Trim(CollapseSpaces(ToLowerCase(s), 1))

csvHasTagExact(csv, wanted) ==
    LET tags == _csvParts(csv)
    IN  \E k \in 1..Len(tags) : _normExact(tags[k]) = _normExact(wanted)

\* new RegExp(`\\b${escapeRegExp(p)}\\b`, 'i').test(s), for lower-cased p and s
TestWordBounded(s, p) ==
    \E i \in 1..(Len(s) + 1) :
        /\ MatchesAt(s, p, i)
        /\ WordBoundaryAt(s, i)
        /\ WordBoundaryAt(s, i + Len(p))

\* p.split(/\s+/).length >= 2 for a trimmed p: it holds white space
HasTwoWords(p) == \E i \in 1..Len(p) : IsSpace(p[i])

\* raw.match(/"([^"]+)"/g), each match without its quotes: scanning from i
RECURSIVE QuotedInners(_, _)
QuotedInners(s, i) ==
    IF i > Len(s) THEN {}
    ELSE IF s[i] # "\"" THEN QuotedInners(s, i + 1)
    ELSE LET closing == { j \in (i + 1)..Len(s) : s[j] = "\"" }
         IN  IF closing = {} THEN {}
             ELSE LET j == CHOOSE j \in closing : \A k \in closing : j <= k
                  IN  IF j = i + 1 THEN QuotedInners(s, i + 1)
                      ELSE {SubSeq(s, i + 1, j - 1)} \cup QuotedInners(s, j + 1)

\* extractExactPhrases(rawQ): bigrams and trigrams of the non-stopword tokens
\* and the quoted substrings, multi-word ones only (as a set)
extractExactPhrases(rawQ) ==
    LET raw      == ToLowerCase(rawQ)
        filtered == FilterOut(SplitAlnum(raw, 1, <<>>), STOPWORDS)
        bigrams  == { filtered[i] \o <<" ">> \o filtered[i + 1] : i \in 1..(Len(filtered) - 1) }
        trigrams == { filtered[i] \o <<" ">> \o filtered[i + 1] \o <<" ">> \o filtered[i + 2] :
                        i \in 1..(Len(filtered) - 2) }
        quoted   == { Trim(inner) : inner \in QuotedInners(raw, 1) }
    IN  { p \in bigrams \cup trigrams \cup quoted : HasTwoWords(p) }

RECURSIVE SumOver(_, _)
SumOver(S, f) ==
    IF S = {} THEN 0
    ELSE LET x == CHOOSE x \in S : TRUE
         IN  f[x] + SumOver(S \ {x}, f)

Min(a, b) == IF a <= b THEN a ELSE b
Max(a, b) == IF a >= b THEN a ELSE b

\* phraseBoostForItem(item, phrases), in hundredths
phraseBoostForItem(o, phrases) ==
    LET team == ToLowerCase(o.TeamName)
        tags == ToLowerCase(o.Textarea)
        boostOf == [p \in phrases |->
            (IF csvHasTagExact(o.Type, p) \/ csvHasTagExact(o.Type2, p) THEN 35 ELSE 0)
          + (IF TestWordBounded(team, ToLowerCase(p)) THEN 20 ELSE 0)
          + (IF TestWordBounded(tags, ToLowerCase(p)) THEN 10 ELSE 0)]
    IN  Min(SumOver(phrases, boostOf), 60)

\* keywordFeatures(order, qCoreTokens)
keywordFeatures(o, qCoreTokens) ==
    LET typeParts  == _csvParts(o.Type)
        type2Parts == _csvParts(o.Type2)
        allText == Join(<< ToLowerCase(o.TeamName), ToLowerCase(o.Type), ToLowerCase(o.Type2),
                           ToLowerCase(o.Textarea), ToLowerCase(o.X1Q),
                           ToLowerCase(o.industrymarket_expertise),
                           ToLowerCase(o.spcv1), ToLowerCase(o.spcv2), ToLowerCase(o.spcv3),
                           ToLowerCase(o.spcv4), ToLowerCase(o.spcv5), ToLowerCase(o.spcv6),
                           ToLowerCase(o.spcv7), ToLowerCase(o.spcv8), ToLowerCase(o.spcv9),
                           ToLowerCase(o.spcv10) >>, <<" ">>)
        qSet == Range(qCoreTokens)
        textTokens == Range(_tokens(allText))
        acrQ == _acronym(Join(Uniq(qCoreTokens), <<" ">>))
        allParts == typeParts \o type2Parts
    IN  [ typeHit  |-> \E k \in 1..Len(typeParts) : ToLowerCase(typeParts[k]) \in qSet,
          type2Hit |-> \E k \in 1..Len(type2Parts) : ToLowerCase(type2Parts[k]) \in qSet,
          overlap  |-> Cardinality(qSet \cap textTokens),
          hasAcr   |-> acrQ # <<>> /\ \E k \in 1..Len(allParts) : _acronym(allParts[k]) = acrQ ]

\* hasTag(order, term)
hasTag(o, term) ==
    LET parts == _csvParts(o.Type) \o _csvParts(o.Type2)
    IN  ToLowerCase(Chars(term)) \in { ToLowerCase(Trim(parts[k])) : k \in 1..Len(parts) }

(***************************************************************************)
(* Hybrid score fusion: the re-rank loop and the intent-aware nudge of     *)
(* POST /search, GET /search and POST /searchPaged.  Scores in hundredths. *)
(***************************************************************************)

Endpoints == { "POST /search", "GET /search", "POST /searchPaged" }

\* wantSEO: POST /search looks at the tokens only; GET /search and
\* POST /searchPaged also accept the substring 'technical seo'
wantSEO(ep, qn, qTokens) ==
    \/ Chars("seo") \in Range(qTokens)
    \/ (ep # "POST /search" /\ Includes(qn, Chars("technical seo")))

wantPR(qn, qTokens) ==
    Chars("pr") \in Range(qTokens) \/ Includes(qn, Chars("public relations"))

wantCICD(qn, qTokens) ==
    \/ Includes(qn, Chars("ci/cd"))
    \/ Includes(qn, Chars("ci cd"))
    \/ Includes(qn, Chars("cicd"))
    \/ (Chars("ci") \in Range(qTokens) /\ Chars("cd") \in Range(qTokens))

seoHit(o) ==
    \/ hasTag(o, "seo") \/ hasTag(o, "technical seo") \/ hasTag(o, "on-page seo")
    \/ hasTag(o, "link building") \/ hasTag(o, "content seo")

prHit(o) == hasTag(o, "pr") \/ hasTag(o, "public relations") \/ hasTag(o, "media relations")

cicdHit(o) ==
    \/ hasTag(o, "ci/cd") \/ hasTag(o, "ci cd") \/ hasTag(o, "cicd")
    \/ hasTag(o, "ci") \/ hasTag(o, "cd")

\* The anchor-intent adjustment of one item
anchorAdjust(ep, qn, qTokens, o) ==
      (IF wantSEO(ep, qn, qTokens) THEN (IF seoHit(o) THEN 12 ELSE -22) ELSE 0)
    + (IF wantPR(qn, qTokens) THEN (IF prHit(o) THEN 10 ELSE -18) ELSE 0)
    + (IF wantCICD(qn, qTokens) THEN (IF cicdHit(o) THEN 10 ELSE -18) ELSE 0)

\* Math.min(feat.overlap, 3) * 0.06
overlapBonus(feat) == Min(feat.overlap, 3) * 6

\* if (!feat.typeHit && !feat.type2Hit && feat.overlap === 0) final -= 0.10
guardrail(feat) == IF ~feat.typeHit /\ ~feat.type2Hit /\ feat.overlap = 0 THEN -10 ELSE 0

\* One pass of the body of the re-rank loop: the new __score of the item
rerankScore(ep, q, exactPhrases, it) ==
    LET qn      == ToLowerCase(q)
        qTokens == SplitAlnum(qn, 1, <<>>)
        feat    == keywordFeatures(it.payload, qTokens)
    IN    it.score
        + (IF feat.typeHit THEN 30 ELSE 0)
        + (IF feat.type2Hit THEN 15 ELSE 0)
        + overlapBonus(feat)
        + (IF feat.hasAcr THEN 8 ELSE 0)
        + guardrail(feat)
        + (IF Trim(it.payload.Partner_confirmation) # <<>> THEN 3 ELSE 0)
        + anchorAdjust(ep, qn, qTokens, it.payload)
        + phraseBoostForItem(it.payload, exactPhrases)

\* The preferred keywords of the intents detected in the query
prefers(q) ==
    LET qn   == ToLowerCase(q)
        qSet == Range(SplitAlnum(qn, 1, <<>>))
    IN  (IF \/ Chars("ci") \in qSet \/ Includes(qn, Chars("ci/cd")) \/ Includes(qn, Chars("ci cd"))
            \/ Includes(qn, Chars("cicd")) \/ Includes(qn, Chars("pipeline"))
         THEN { Chars("ci"), Chars("cicd"), Chars("ci/cd"), Chars("pipeline"), Chars("monorepo"),
                Chars("github actions"), Chars("gitlab"), Chars("jenkins"), Chars("circleci") }
         ELSE {})
        \cup
        (IF Chars("pr") \in qSet \/ Includes(qn, Chars("public relations"))
         THEN { Chars("pr"), Chars("public relations"), Chars("media relations") }
         ELSE {})
        \cup
        (IF Chars("marketing") \in qSet \/ Includes(qn, Chars("strategy"))
         THEN { Chars("marketing"), Chars("digital strategy"), Chars("content"), Chars("seo"),
                Chars("brand strategy"), Chars("go-to-market") }
         ELSE {})

\* The gentle boost of the intent-aware re-rank
softNudge(q, o) ==
    LET t1 == ToLowerCase(o.Type)
        t2 == ToLowerCase(o.Type2)
        tg == ToLowerCase(o.Textarea)
    IN  IF \E pr \in prefers(q) : Includes(t1, ToLowerCase(pr)) \/ Includes(t2, ToLowerCase(pr))
                                  \/ Includes(tg, ToLowerCase(pr))
        THEN 15 ELSE 0

\* The fused score an endpoint gives to one de-duplicated item for the raw query
fusedItem(ep, rawQ, it) ==
    LET trimmed == Trim(rawQ)
        q       == normalizeQuery(trimmed)
        phrases == extractExactPhrases(trimmed)
        ranked  == rerankScore(ep, q, phrases, it)
    IN  [it EXCEPT !.score = ranked + softNudge(q, it.payload)]

(***************************************************************************)
(* Ordering: Array.prototype.sort (stable) and string comparison           *)
(***************************************************************************)

\* The characters of the model in UTF-16 code-unit order
CodeOrder ==
    Chars(" \",-/0123456789ABCDEFGHIJKLMNOPQRSTUVWXYZ_abcdefghijklmnopqrstuvwxyz{|}")

CharCode == [c \in Range(CodeOrder) |-> CHOOSE i \in 1..Len(CodeOrder) : CodeOrder[i] = c]

\* a < b on strings: lexicographic by code unit
RECURSIVE StringLess(_, _)
StringLess(a, b) ==
    IF b = <<>> THEN FALSE
    ELSE IF a = <<>> THEN TRUE
    ELSE IF Head(a) = Head(b) THEN StringLess(Tail(a), Tail(b))
    ELSE CharCode[Head(a)] < CharCode[Head(b)]

\* arr.sort(cmp) for a consistent comparator, before[x, y] being cmp(x, y) < 0
\* on the elements of arr: the stable order, equal elements keeping their
\* input order.
StableSort(arr, before) ==
    LET n == Len(arr)
        Precedes(j, i) == before[arr[j], arr[i]] \/ (~before[arr[i], arr[j]] /\ j < i)
        rank(i) == 1 + Cardinality({ j \in 1..n : j # i /\ Precedes(j, i) })
    IN  [k \in 1..n |-> arr[CHOOSE i \in 1..n : rank(i) = k]]

\* (a, b) => (b.__score || 0) - (a.__score || 0)
ScoreDescending(a, b) == a.score > b.score

\* (a, b) => (b.__score || 0) - (a.__score || 0) ||
\*           (stableIdForOrder(a) > stableIdForOrder(b) ? 1 : -1)
ScoreThenStableId(a, b) ==
    \/ a.score > b.score
    \/ /\ a.score = b.score
       /\ StringLess(stableIdForOrder(a.payload), stableIdForOrder(b.payload))

\* items.sort((a, b) => (b.__score || 0) - (a.__score || 0))
SortByScore(items) ==
    StableSort(items, [a, b \in Range(items) |-> ScoreDescending(a, b)])

\* items.sort with the stable-id tie-break of POST /searchPaged
SortByScoreThenStableId(items) ==
    StableSort(items, [a, b \in Range(items) |-> ScoreThenStableId(a, b)])

(***************************************************************************)
(* Diversifier: token sets, Jaccard similarity, MMR, trigger               *)
(***************************************************************************)

\* _itemTokens(it): CSV tags, name words, words of the first 300 characters of
\* the keywords, and the acronym of the tags (as a set)
_itemTokens(it) ==
    LET o   == it.payload
        csv(f) == { ToLowerCase(x) : x \in Range(_csvParts(f)) }
        text == SubSeq(o.Textarea, 1, Min(300, Len(o.Textarea)))
        acr == _acronym(o.Type \o <<" ">> \o o.Type2)
    IN  csv(o.Type) \cup csv(o.Type2) \cup Range(_tokens(o.TeamName)) \cup Range(_tokens(text))
        \cup (IF acr # <<>> THEN {ToLowerCase(acr)} ELSE {})

\* A non-negative rational n/d
Frac(n, d) == [n |-> n, d |-> d]
FracLess(x, y) == x.n * y.d < y.n * x.d

\* _jaccard(aSet, bSet) as a rational: inter / union, 0 when both are empty
_jaccard(aSet, bSet) ==
    LET inter == Cardinality(aSet \cap bSet)
        union == Cardinality(aSet) + Cardinality(bSet) - inter
    IN  IF union # 0 THEN Frac(inter, union) ELSE Frac(0, 1)

\* maxSim of candidate i against the picked indices
RECURSIVE maxSimTo(_, _, _, _)
maxSimTo(tokSets, i, picked, maxSim) ==
    IF picked = <<>> THEN maxSim
    ELSE LET sim == _jaccard(tokSets[i], tokSets[Head(picked)])
         IN  maxSimTo(tokSets, i, Tail(picked), IF FracLess(maxSim, sim) THEN sim ELSE maxSim)

\* mmr = lambda * relevance - (1 - lambda) * maxSim, with lambda in tenths and
\* relevance in hundredths, as a rational over the denominator of maxSim
mmrValue(lambda, relevance, maxSim) ==
    Frac(lambda * relevance * maxSim.d - (10 - lambda) * 100 * maxSim.n, maxSim.d)

\* The inner for-loop: the position in `remaining` of the first candidate with
\* the greatest mmr value
bestRemaining(items, tokSets, picked, remaining, lambda) ==
    LET val(r) == mmrValue(lambda, items[remaining[r]].score,
                           maxSimTo(tokSets, remaining[r], picked, Frac(0, 1)))
    IN  CHOOSE r \in 1..Len(remaining) :
            /\ \A r2 \in 1..Len(remaining) : ~FracLess(val(r), val(r2))
            /\ \A r2 \in 1..(r - 1) : FracLess(val(r2), val(r))

\* a splice that removes nothing (for comparison)
RemoveNone(arr, r) == arr

\* remaining.splice(r, 1): the array without its r-th element
RemoveAt(arr, r) == SubSeq(arr, 1, r - 1) \o SubSeq(arr, r + 1, Len(arr))

\* The while-loop of mmrDiversifyOrder
RECURSIVE mmrPick(_, _, _, _, _, _)
mmrPick(items, tokSets, picked, remaining, K, lambda) ==
    IF Len(picked) < Min(K, Len(items)) /\ remaining # <<>>
    THEN LET r == bestRemaining(items, tokSets, picked, remaining, lambda)
         IN  mmrPick(items, tokSets, Append(picked, remaining[r]), RemoveAt(remaining, r), K, lambda)
    ELSE picked

\* The seed order taken worst-first
mmrSeedOrderAscending(items) ==
    LET idx == [i \in 1..Len(items) |-> i]
    IN  StableSort(idx, [ia, ib \in 1..Len(items) |-> items[ia].score < items[ib].score])

\* remaining.sort((ia, ib) => items[ib].__score - items[ia].__score)
mmrSeedOrder(items) ==
    LET idx == [i \in 1..Len(items) |-> i]
    IN  StableSort(idx, [ia, ib \in 1..Len(items) |-> items[ia].score > items[ib].score])

\* the kept elements collected from the last index down (for comparison)
RECURSIVE KeepIndicesBackwards(_, _, _)
KeepIndicesBackwards(arr, i, keep) ==
    IF i > Len(arr) THEN <<>>
    ELSE KeepIndicesBackwards(arr, i + 1, keep) \o (IF i \in keep THEN <<arr[i]>> ELSE <<>>)

\* items.filter((_, idx) => keep.has(idx)), from index i on
RECURSIVE KeepIndices(_, _, _)
KeepIndices(arr, i, keep) ==
    IF i > Len(arr) THEN <<>>
    ELSE (IF i \in keep THEN <<arr[i]>> ELSE <<>>) \o KeepIndices(arr, i + 1, keep)

\* mmrDiversifyOrder(items, K, lambda), lambda in tenths
mmrDiversifyOrder(items, K, lambda) ==
    IF Len(items) <= 1 THEN items
    ELSE LET tokSets   == [i \in 1..Len(items) |-> _itemTokens(items[i])]
             seeded    == mmrSeedOrder(items)
             picked    == mmrPick(items, tokSets, <<Head(seeded)>>, Tail(seeded), K, lambda)
             ordered   == [k \in 1..Len(picked) |-> items[picked[k]]]
             rest      == SortByScore(KeepIndices(items, 1, (1..Len(items)) \ Range(picked)))
         IN  ordered \o rest

\* shouldDiversify counting only the pairs above the threshold
shouldDiversifyAbove(items, checkTopN, simThreshold) ==
    LET N == Min(checkTopN, Len(items))
        sets == [i \in 1..N |-> _itemTokens(items[i])]
        pairs == { <<i, j>> \in (1..N) \X (1..N) : i < j }
        high == { pr \in pairs :
                    LET sim == _jaccard(sets[pr[1]], sets[pr[2]])
                    IN  100 * sim.n > simThreshold * sim.d }
    IN  IF N < 3 THEN FALSE
        ELSE Cardinality(pairs) > 0 /\ 2 * Cardinality(high) > Cardinality(pairs)

\* shouldDiversify(items, checkTopN, simThreshold), the threshold in hundredths
shouldDiversify(items, checkTopN, simThreshold) ==
    LET N == Min(checkTopN, Len(items))
        sets == [i \in 1..N |-> _itemTokens(items[i])]
        pairs == { <<i, j>> \in (1..N) \X (1..N) : i < j }
        high == { pr \in pairs :
                    LET sim == _jaccard(sets[pr[1]], sets[pr[2]])
                    IN  100 * sim.n >= simThreshold * sim.d }
    IN  IF N < 3 THEN FALSE
        ELSE Cardinality(pairs) > 0 /\ 2 * Cardinality(high) > Cardinality(pairs)

(***************************************************************************)
(* The search endpoints                                                    *)
(*                                                                         *)
(* The vector store snapshot is the ranking the store gives for the query  *)
(* vector: hits { payload, score } by non-increasing cosine score.         *)
(***************************************************************************)

\* vectorSearch(vec, limit): the `limit` nearest points
vectorSearch(snapshot, limit) == SubSeq(snapshot, 1, Min(limit, Len(snapshot)))

\* (hits || []).map(h => ({ ...h.payload, __score: h.score }))
hitsToItems(hits) == [i \in 1..Len(hits) |-> Item(hits[i].payload, hits[i].score)]

\* The one element of a singleton set
TheOne(S) == CHOOSE x \in S : TRUE

\* const items = diversified ? mmrDiversifyOrder(items, K, 0.7) : items
diversifyStep(sorted, K) ==
    TheOne({ [ items |-> IF trigger THEN mmrDiversifyOrder(sorted, Min(K, Len(sorted)), 7)
                         ELSE sorted,
               diversified |-> trigger ] : trigger \in { shouldDiversify(sorted, 8, 55) } })

\* items.sort(...) of the endpoint, then the diversification step
sortStep(ep, fused, K) ==
    TheOne({ diversifyStep(sorted, K) :
             sorted \in { IF ep = "POST /searchPaged"
                          THEN SortByScoreThenStableId(fused)
                          ELSE SortByScore(fused) } })

\* the re-rank loop over the de-duplicated items, then the later steps
fuseStep(ep, rawQ, deduped, K) ==
    TheOne({ sortStep(ep, fused, K) :
             fused \in { [i \in 1..Len(deduped) |-> fusedItem(ep, rawQ, deduped[i])] } })

\* From the hits to the final order of an endpoint: de-duplicate, re-rank,
\* sort, and diversify with the given K when the top results are too similar.
\* The handler's statements run in sequence, each on the value the previous
\* one produced.
rankHits(ep, rawQ, hits, K) ==
    TheOne({ fuseStep(ep, rawQ, deduped, K) :
             deduped \in { dedupeByTeamNameScore(hitsToItems(hits)) } })

\* Math.min(Number(limit || 50), 100) for a non-negative integer limit (0: absent)
searchLimit(limitReq) == Min(IF limitReq = 0 THEN 50 ELSE limitReq, 100)

\* await ensureCollection(); await embedTextCached(q); await vectorSearch(vec, K)
UpstreamSteps == << "ensureCollection", "embedTextCached", "vectorSearch" >>

\* the awaited calls up to the one that throws (failAt; 0: none throws)
callsUpTo(failAt) ==
    [k \in 1..(IF failAt = 0 THEN Len(UpstreamSteps) ELSE failAt) |->
        [call |-> UpstreamSteps[k], threw |-> (k = failAt)]]

\* the calls of a handler that never looks at its guards (for comparison)
upstreamCallsUnguarded(rawQ, enabled, failAt) == callsUpTo(failAt)

\* The upstream calls a search handler makes: none when a guard returns
\* early, else the awaited calls up to the throw
upstreamCalls(rawQ, enabled, failAt) ==
    IF normalizeQuery(Trim(rawQ)) = <<>> \/ ~enabled
    THEN <<>>
    ELSE callsUpTo(failAt)

\* The response of POST /search and GET /search
searchResponse(ep, rawQ, limitReq, snapshot, enabled, upstreamOk) ==
    LET q == normalizeQuery(Trim(rawQ))
    IN  IF q = <<>> \/ ~enabled
        THEN [endpoint |-> ep, status |-> 200, items |-> <<>>, diversified |-> FALSE]
        ELSE IF ~upstreamOk
        THEN [endpoint |-> ep, status |-> 500, items |-> <<>>, diversified |-> FALSE]
        ELSE LET ranked == rankHits(ep, rawQ, vectorSearch(snapshot, searchLimit(limitReq)), 10)
             IN  [endpoint |-> ep, status |-> 200, items |-> ranked.items,
                  diversified |-> ranked.diversified]

\* Number.prototype.toString for a non-negative integer
RECURSIVE DecimalString(_)
DecimalString(n) ==
    IF n < 10 THEN <<Digits[n + 1]>>
    ELSE DecimalString(n \div 10) \o <<Digits[(n % 10) + 1]>>

\* JSON.stringify({ page: n })
cursorFor(n) == Chars("{\"page\":") \o DecimalString(n) \o Chars("}")

RECURSIVE DecimalValue(_)
DecimalValue(ds) ==
    IF ds = <<>> THEN 0
    ELSE 10 * DecimalValue(SubSeq(ds, 1, Len(ds) - 1))
         + ((CHOOSE k \in 1..10 : Digits[k] = ds[Len(ds)]) - 1)

\* Math.max(1, Number(JSON.parse(cursor)?.page || 1)) for the cursors the server
\* issues; an absent or unparsable cursor gives page 1
cursorPage(cursor) ==
    LET prefix == Chars("{\"page\":")
        digits == SubSeq(cursor, Len(prefix) + 1, Len(cursor) - 1)
    IN  IF /\ Len(cursor) > Len(prefix) + 1
           /\ MatchesAt(cursor, prefix, 1)
           /\ cursor[Len(cursor)] = "}"
           /\ \A k \in 1..Len(digits) : digits[k] \in Range(Digits)
        THEN Max(1, DecimalValue(digits))
        ELSE 1

PoolCap == 1000
MaxPageSize == 50

\* Math.min(Math.max(pageSizeReq || 50, 1), 50) for a non-negative integer request
pageSizeFor(limitReq) == Min(Max(IF limitReq = 0 THEN 50 ELSE limitReq, 1), MaxPageSize)

\* a pool that does not grow with the page (for comparison)
candidatesKFirstPage(page, pageSize) == Min(PoolCap, 1 * pageSize * 2)

\* The pool of page p: the hits of the page's own candidate search
candidatesK(page, pageSize) == Min(PoolCap, page * pageSize * 2)

\* a page that announces a next page whenever it holds an item (for comparison)
pageOfWhileItems(ranked, page, pageSize) ==
    LET total == Len(ranked.items)
        start == (page - 1) * pageSize
        end   == Min(page * pageSize, total)
    IN  [status |-> 200,
         items |-> IF start < end THEN SubSeq(ranked.items, start + 1, end) ELSE <<>>,
         next_cursor |-> IF start < end THEN cursorFor(page + 1) ELSE Null,
         total_estimate |-> total,
         page |-> page, diversified |-> ranked.diversified]

\* const slice = items.slice(start, end) and the response body built from it
pageOf(ranked, page, pageSize) ==
    LET total == Len(ranked.items)
        start == (page - 1) * pageSize
        end   == Min(page * pageSize, total)
    IN  [status |-> 200,
         items |-> IF start < end THEN SubSeq(ranked.items, start + 1, end) ELSE <<>>,
         next_cursor |-> IF end < total THEN cursorFor(page + 1) ELSE Null,
         total_estimate |-> total,
         page |-> page, diversified |-> ranked.diversified]

\* The response of POST /searchPaged
searchPagedResponse(rawQ, limitReq, cursor, snapshot, enabled, upstreamOk) ==
    LET q        == normalizeQuery(Trim(rawQ))
        pageSize == pageSizeFor(limitReq)
        page     == IF cursor = Null THEN 1 ELSE cursorPage(cursor)
    IN  IF q = <<>> \/ ~enabled
        THEN [status |-> 200, items |-> <<>>, next_cursor |-> Null, total_estimate |-> 0,
              page |-> page, diversified |-> FALSE]
        ELSE IF ~upstreamOk
        THEN [status |-> 500, items |-> <<>>, next_cursor |-> Null, total_estimate |-> 0,
              page |-> page, diversified |-> FALSE]
        ELSE TheOne({ pageOf(ranked, p, ps) :
                      ranked \in { rankHits("POST /searchPaged", rawQ,
                                             vectorSearch(snapshot, candidatesK(page, pageSize)),
                                             pageSize) },
                      p \in { page }, ps \in { pageSize } })

(***************************************************************************)
(* Harness of the de-duplication                                           *)
(***************************************************************************)

MaxDedupeItems == 3

DdNames == { Chars("Acme"), Chars(" acme"), <<>> }
DdTypes == { Chars("x"), Chars("y") }
DdScores == { -20, 0, 50 }

DdItems ==
    { Item([EmptyOrder EXCEPT !.TeamName = tn, !.Type = t1], sc) :
        tn \in DdNames, t1 \in DdTypes, sc \in DdScores }

DedupeInit ==
    /\ ddPc = "start"
    /\ ddIn \in UNION { [1..n -> DdItems] : n \in 0..MaxDedupeItems }
    /\ ddOut = <<>>
    /\ NormIdle
    /\ IdentIdle
    /\ FuseIdle
    /\ MmrIdle
    /\ SearchIdle
    /\ ClientIdle
    /\ AuxIdle

Dedupe ==
    /\ ddPc = "start"
    /\ ddOut' = dedupeByTeamNameScore(ddIn)
    /\ ddPc' = "done"
    /\ UNCHANGED <<ddIn, normVars, identVars, fuseVars, mmrVars, searchVars>>
    /\ UNCHANGED <<clientVars, auxVars>>

DedupeNext == Dedupe

SpecDedupe == DedupeInit /\ [][DedupeNext]_vars

GroupScores(items, key) == { items[i].score : i \in { i \in 1..Len(items) : dedupeKey(items[i]) = key } }

\* C8: the result of dedupeByTeamNameScore is no longer than its input, holds
\* exactly one item per name group of the input, and that item is an input
\* item whose score is the maximum of its group.
C8_DedupeKeepsBestPerGroup ==
    ddPc = "done" =>
        /\ Len(ddOut) <= Len(ddIn)
        /\ { dedupeKey(ddOut[j]) : j \in 1..Len(ddOut) } = { dedupeKey(ddIn[i]) : i \in 1..Len(ddIn) }
        /\ \A j, k \in 1..Len(ddOut) : dedupeKey(ddOut[j]) = dedupeKey(ddOut[k]) => j = k
        /\ \A j \in 1..Len(ddOut) :
              /\ \E i \in 1..Len(ddIn) : ddIn[i] = ddOut[j]
              /\ \A sc \in GroupScores(ddIn, dedupeKey(ddOut[j])) : sc <= ddOut[j].score

\* A group whose later member scores higher than its first has been collapsed.
C8_Witness ==
    /\ ddPc = "done"
    /\ Len(ddOut) < Len(ddIn)
    /\ \E i, k \in 1..Len(ddIn) :
          /\ i < k
          /\ dedupeKey(ddIn[i]) = dedupeKey(ddIn[k])
          /\ ddIn[i].payload.TeamName # ddIn[k].payload.TeamName
          /\ ddIn[i].score < ddIn[k].score
    /\ \E i \in 1..Len(ddIn) : ddIn[i].payload.TeamName = <<>>

(***************************************************************************)
(* Harness of the fusion engine: two candidates with the same semantic     *)
(* score are re-ranked for one query by one endpoint.                      *)
(***************************************************************************)

FsQueries ==
    { Chars("SEO"), Chars("seo audit"), Chars("strategy"), Chars("public relations"),
      Chars("i need a PR team"), Chars("ci/cd pipeline"), Chars("technical seoul") }

FsTypes ==
    { <<>>, Chars("SEO, Content"), Chars("PR"), Chars("link building"), Chars("strategy"),
      Chars("public, relations"), Chars("pr, paid reach"), Chars("CI, CD") }

\* the other columns of a candidate: none, a matching name with a partner
\* confirmation, or matching keywords
FsExtras ==
    { EmptyOrder,
      [EmptyOrder EXCEPT !.TeamName = Chars("SEO Audit"), !.Partner_confirmation = Chars("yes")],
      [EmptyOrder EXCEPT !.Textarea = Chars("seo audit, pipeline"), !.Partner_confirmation = Chars("yes")] }

FsOrders == { [x EXCEPT !.Type = t1] : t1 \in FsTypes, x \in FsExtras }

FsSemScores == { 50 }

FuseInit ==
    /\ fsPc = "start"
    /\ fsQuery \in FsQueries
    /\ fsA \in FsOrders
    /\ fsB \in FsOrders
    /\ fsSem \in FsSemScores
    /\ fsEndpoint = "none"
    /\ fsScoreA = 0
    /\ fsScoreB = 0
    /\ NormIdle
    /\ IdentIdle
    /\ DedupeIdle
    /\ MmrIdle
    /\ SearchIdle
    /\ ClientIdle
    /\ AuxIdle

Fuse(ep) ==
    /\ fsPc = "start"
    /\ fsEndpoint' = ep
    /\ fsScoreA' = fusedItem(ep, fsQuery, Item(fsA, fsSem)).score
    /\ fsScoreB' = fusedItem(ep, fsQuery, Item(fsB, fsSem)).score
    /\ fsPc' = "done"
    /\ UNCHANGED <<fsQuery, fsA, fsB, fsSem, normVars, identVars, dedupeVars, mmrVars, searchVars>>
    /\ UNCHANGED <<clientVars, auxVars>>

FuseNext == \E ep \in Endpoints : Fuse(ep)

SpecFuse == FuseInit /\ [][FuseNext]_vars

OnlyType(t1) == [EmptyOrder EXCEPT !.Type = t1]

\* C4 as stated: for the query "SEO", Team A (Type "SEO, Content") and Team B
\* (Type "PR"), both with semantic score 0.5 and all other fields empty, A is
\* fused to exactly 0.92 and B to exactly 0.18.
C4_ScenarioScores ==
    ( /\ fsPc = "done"
      /\ fsQuery = Chars("SEO")
      /\ fsA = OnlyType(Chars("SEO, Content"))
      /\ fsB = OnlyType(Chars("PR"))
      /\ fsSem = 50 )
    => (fsScoreA = 92 /\ fsScoreB = 18)

FsTokens == SplitAlnum(ToLowerCase(normalizeQuery(Trim(fsQuery))), 1, <<>>)
FsQn == ToLowerCase(normalizeQuery(Trim(fsQuery)))

\* Some detected anchor intent whose canonical tag (or synonym) A carries and B lacks
AnchorSeparates(ep, a, b) ==
    \/ (wantSEO(ep, FsQn, FsTokens) /\ seoHit(a) /\ ~seoHit(b))
    \/ (wantPR(FsQn, FsTokens) /\ prHit(a) /\ ~prHit(b))
    \/ (wantCICD(FsQn, FsTokens) /\ cicdHit(a) /\ ~cicdHit(b))

\* C2: when an anchor intent is detected and, of two candidates with the same
\* semantic score, A carries its canonical tag (or a synonym) and B does not,
\* A's fused score is strictly greater than B's.
C2_AnchorTagOutranks ==
    (fsPc = "done" /\ AnchorSeparates(fsEndpoint, fsA, fsB)) => fsScoreA > fsScoreB

\* A has an exact primary-tag CSV entry equal to every query token
ExactTagForEveryToken(a) ==
    LET parts == _csvParts(a.Type)
    IN  /\ FsTokens # <<>>
        /\ \A k \in 1..Len(FsTokens) : \E j \in 1..Len(parts) : ToLowerCase(parts[j]) = FsTokens[k]

\* B has no tag hit and no free-text overlap with the query
NoLexicalOverlap(b) ==
    LET feat == keywordFeatures(b, FsTokens)
    IN  ~feat.typeHit /\ ~feat.type2Hit /\ feat.overlap = 0

\* B is A with another primary tag field
OtherwiseIdentical(a, b) == \E t1 \in FsTypes : b = [a EXCEPT !.Type = t1]

\* C3: when A has an exact primary-tag entry for every query token and B, equal
\* to A but for its tags and with the same semantic score, has no tag hit and no
\* free-text overlap, A's fused score exceeds B's by at least 0.40.
C3_GuardrailGap ==
    ( /\ fsPc = "done"
      /\ ExactTagForEveryToken(fsA)
      /\ NoLexicalOverlap(fsB)
      /\ OtherwiseIdentical(fsA, fsB) )
    => fsScoreA - fsScoreB >= 40

\* C25: the three search endpoints apply the same re-rank: whichever endpoint
\* re-ranked, the fused score it gave each candidate is the score every other
\* endpoint gives that candidate for the same query (so POST /search and
\* GET /search return the same scores, and /searchPaged agrees with /search).
C25_SameRerankAtEveryEndpoint ==
    fsPc = "done" =>
        \A ep \in Endpoints :
            /\ fusedItem(ep, fsQuery, Item(fsA, fsSem)).score = fsScoreA
            /\ fusedItem(ep, fsQuery, Item(fsB, fsSem)).score = fsScoreB

(***************************************************************************)
(* Harness of the diversifier: a list sorted by descending score is        *)
(* reordered by mmrDiversifyOrder.                                         *)
(***************************************************************************)

MaxMmrItems == 3
MaxK == 4

MmTypes == { Chars("seo"), Chars("seo, content"), Chars("pr") }
MmScores == { 90, 80 }
MmLambdas == { 0, 7, 10 }

MmItemSet == { Item([EmptyOrder EXCEPT !.Type = t1], sc) : t1 \in MmTypes, sc \in MmScores }

IsSortedByScore(items) == \A i \in 1..(Len(items) - 1) : items[i].score >= items[i + 1].score

MmrInit ==
    /\ mmPc = "start"
    /\ mmItems \in { l \in UNION { [1..n -> MmItemSet] : n \in 0..MaxMmrItems } : IsSortedByScore(l) }
    /\ mmK \in 0..MaxK
    /\ mmLambda \in MmLambdas
    /\ mmOut = <<>>
    /\ NormIdle
    /\ IdentIdle
    /\ DedupeIdle
    /\ FuseIdle
    /\ SearchIdle
    /\ ClientIdle
    /\ AuxIdle

Diversify ==
    /\ mmPc = "start"
    /\ mmOut' = mmrDiversifyOrder(mmItems, mmK, mmLambda)
    /\ mmPc' = "done"
    /\ UNCHANGED <<mmItems, mmK, mmLambda, normVars, identVars, dedupeVars, fuseVars, searchVars>>
    /\ UNCHANGED <<clientVars, auxVars>>

MmrNext == Diversify

SpecMmr == MmrInit /\ [][MmrNext]_vars

\* C9: for a list sorted by descending score, whatever K and lambda, the first
\* item of mmrDiversifyOrder's output is the first item of its input, also when
\* several items tie for the top score.
C9_TopOnePreserved ==
    (mmPc = "done" /\ mmItems # <<>>) => (mmOut # <<>> /\ mmOut[1] = mmItems[1])

\* A list whose two best items tie and differ has been reordered below the top.
C9_Witness ==
    /\ mmPc = "done"
    /\ Len(mmItems) >= 3
    /\ mmItems[1].score = mmItems[2].score
    /\ mmItems[1] # mmItems[2]
    /\ mmOut # mmItems
    /\ mmOut[1] = mmItems[1]

\* the items of a list from position k + 1 on
After(items, k) == SubSeq(items, k + 1, Len(items))

\* how often x occurs in a list
Count(items, x) == Cardinality({ i \in 1..Len(items) : items[i] = x })

\* two lists hold the same items the same number of times
SameItems(a, b) ==
    /\ Len(a) = Len(b)
    /\ \A x \in Range(a) \cup Range(b) : Count(a, x) = Count(b, x)

\* sub can be obtained from full by leaving items out, the order kept
RECURSIVE IsSubsequence(_, _)
IsSubsequence(sub, full) ==
    IF sub = <<>> THEN TRUE
    ELSE IF full = <<>> THEN FALSE
    ELSE IF Head(sub) = Head(full) THEN IsSubsequence(Tail(sub), Tail(full))
    ELSE IsSubsequence(sub, Tail(full))

\* C27: for every score-sorted list longer than K, the items mmrDiversifyOrder
\* places after position K are exactly the items ranked beyond K by relevance,
\* in non-increasing score order: only the top K are reordered.
C27_TailIsBeyondK ==
    (mmPc = "done" /\ Len(mmItems) > mmK) =>
        /\ SameItems(After(mmOut, mmK), After(mmItems, mmK))
        /\ IsSortedByScore(After(mmOut, mmK))

\* C27 as the code has it: the items after position K are the items the
\* selection left over, whatever their rank, in the order they had in the
\* score-sorted input (so in non-increasing score order).
C27_TailIsLeftoverInInputOrder ==
    (mmPc = "done" /\ Len(mmItems) > mmK) =>
        /\ Len(mmOut) = Len(mmItems)
        /\ IsSubsequence(After(mmOut, mmK), mmItems)
        /\ IsSortedByScore(After(mmOut, mmK))

\* The selection reached below rank K: an item ranked beyond K was moved into
\* the first K positions and a better-ranked one was left over.
C27_Witness ==
    /\ mmPc = "done"
    /\ mmK = 2
    /\ Len(mmItems) = 3
    /\ mmOut[2] = mmItems[3]
    /\ mmOut[3] = mmItems[2]
    /\ mmItems[2] # mmItems[3]

\* C28: mmrDiversifyOrder returns a permutation of its input for every list,
\* K and lambda: every input item appears exactly once in the output and
\* nothing is added.
C28_OutputIsPermutation ==
    mmPc = "done" => SameItems(mmOut, mmItems)

\* Three different items came back in another order.
C28_Witness ==
    /\ mmPc = "done"
    /\ Len(mmItems) = 3
    /\ Cardinality(Range(mmItems)) = 3
    /\ mmOut # mmItems
    /\ mmK >= 2

(***************************************************************************)
(* Harness of the search endpoints: over one snapshot of the vector store  *)
(* a client either makes one plain search (POST /search or GET /search) or *)
(* follows the cursors of POST /searchPaged from the first page on.  The   *)
(* requests do not influence one another, so one request per run loses     *)
(* nothing.                                                                *)
(***************************************************************************)

MaxStore == 3

SqCatalog ==
    { [EmptyOrder EXCEPT !.TeamName = Chars("A"), !.Type = Chars("seo")],
      [EmptyOrder EXCEPT !.TeamName = Chars("B"), !.Type = Chars("pr"), !.Textarea = Chars("k1 k2")],
      [EmptyOrder EXCEPT !.TeamName = Chars("C"), !.Type = Chars("pr"), !.Textarea = Chars("k1 k2")],
      [EmptyOrder EXCEPT !.TeamName = Chars("a "), !.Type = Chars("pr"), !.Textarea = Chars("k1 k2")],
      [EmptyOrder EXCEPT !.TeamName = Chars("D"), !.Type = Chars("ux")] }

SqScores == { 60, 50 }
SqQueries == { Chars("seo"), Chars("a team"), Chars(" ") }
SqLimits == { 0, 1, 2 }

Hit(o, sc) == [payload |-> o, score |-> sc]

\* the snapshots: points with distinct ids, ranked by non-increasing score
SqSnapshots ==
    { l \in UNION { [1..n -> { Hit(o, sc) : o \in SqCatalog, sc \in SqScores }] : n \in 0..MaxStore } :
        /\ \A i, j \in 1..Len(l) : i # j => l[i].payload # l[j].payload
        /\ \A i \in 1..(Len(l) - 1) : l[i].score >= l[i + 1].score }

SearchInit ==
    /\ store \in SqSnapshots
    /\ env \in [ProviderSettings -> BOOLEAN]
    /\ sqQuery \in SqQueries
    /\ sqLimit \in SqLimits
    /\ srResp = NoResponse
    /\ pgPages = <<>>
    /\ upCalls = <<>>
    /\ NormIdle
    /\ IdentIdle
    /\ DedupeIdle
    /\ FuseIdle
    /\ MmrIdle
    /\ ClientIdle
    /\ AuxIdle

Fresh == srResp = NoResponse /\ pgPages = <<>>

\* which awaited upstream call throws: none (0) or the k-th of UpstreamSteps
FailPoints == 0..Len(UpstreamSteps)

PostSearch ==
    /\ Fresh
    /\ \E failAt \in FailPoints :
         /\ srResp' = searchResponse("POST /search", sqQuery, sqLimit, store,
                                     vectorsEnabled(env), failAt = 0)
         /\ upCalls' = upstreamCalls(sqQuery, vectorsEnabled(env), failAt)
    /\ UNCHANGED <<store, env, sqQuery, sqLimit, pgPages>>
    /\ UNCHANGED <<normVars, identVars, dedupeVars, fuseVars, mmrVars>>
    /\ UNCHANGED <<clientVars, auxVars>>

GetSearch ==
    /\ Fresh
    /\ \E failAt \in FailPoints :
         /\ srResp' = searchResponse("GET /search", sqQuery, sqLimit, store,
                                     vectorsEnabled(env), failAt = 0)
         /\ upCalls' = upstreamCalls(sqQuery, vectorsEnabled(env), failAt)
    /\ UNCHANGED <<store, env, sqQuery, sqLimit, pgPages>>
    /\ UNCHANGED <<normVars, identVars, dedupeVars, fuseVars, mmrVars>>
    /\ UNCHANGED <<clientVars, auxVars>>

\* the cursor the client sends next: none at first, then the last next_cursor
NextCursor == IF pgPages = <<>> THEN Null ELSE pgPages[Len(pgPages)].next_cursor

ChainOpen ==
    IF pgPages = <<>> THEN TRUE
    ELSE pgPages[Len(pgPages)].status = 200 /\ pgPages[Len(pgPages)].next_cursor # Null

SearchPaged ==
    /\ srResp = NoResponse
    /\ ChainOpen
    /\ \E failAt \in FailPoints :
         /\ pgPages' = Append(pgPages,
                         searchPagedResponse(sqQuery, sqLimit, NextCursor, store,
                                             vectorsEnabled(env), failAt = 0))
         /\ upCalls' = upstreamCalls(sqQuery, vectorsEnabled(env), failAt)
    /\ UNCHANGED <<store, env, sqQuery, sqLimit, srResp>>
    /\ UNCHANGED <<normVars, identVars, dedupeVars, fuseVars, mmrVars>>
    /\ UNCHANGED <<clientVars, auxVars>>

SearchNext == PostSearch \/ GetSearch \/ SearchPaged

SpecSearch == SearchInit /\ [][SearchNext]_vars

\* the cursor chain has been followed to its end without a failure
ChainComplete ==
    /\ pgPages # <<>>
    /\ \A p \in 1..Len(pgPages) : pgPages[p].status = 200
    /\ pgPages[Len(pgPages)].next_cursor = Null

PageIds(p) == { stableIdForOrder(pgPages[p].items[k].payload) : k \in 1..Len(pgPages[p].items) }

RECURSIVE SumLen(_)
SumLen(pages) == IF pages = <<>> THEN 0 ELSE Len(Head(pages).items) + SumLen(Tail(pages))

\* C1: for a fixed query, page size and snapshot, the pages from the first one
\* to the one whose next_cursor is null hold together exactly total_estimate
\* items, and no StableIdentity appears on two different pages.
C1_PagesPartitionPool ==
    ChainComplete =>
        /\ SumLen(pgPages) = pgPages[Len(pgPages)].total_estimate
        /\ \A p1, p2 \in 1..Len(pgPages) : p1 # p2 => PageIds(p1) \cap PageIds(p2) = {}

\* C10: in every successful response in which the diversifier did not trigger,
\* the items are in non-increasing fused-score order and items of equal score
\* are in ascending StableIdentity order.
OrderedByScoreThenId(items) ==
    \A i \in 1..(Len(items) - 1) :
        \/ items[i].score > items[i + 1].score
        \/ /\ items[i].score = items[i + 1].score
           /\ StringLess(stableIdForOrder(items[i].payload), stableIdForOrder(items[i + 1].payload))

C10_DeterministicOrder ==
    /\ (srResp.status = 200 /\ ~srResp.diversified) => OrderedByScoreThenId(srResp.items)
    /\ \A p \in 1..Len(pgPages) : ~pgPages[p].diversified => OrderedByScoreThenId(pgPages[p].items)

\* the last response the client received, whichever endpoint sent it
Answered == srResp # NoResponse \/ pgPages # <<>>

LastStatus == IF srResp # NoResponse THEN srResp.status ELSE pgPages[Len(pgPages)].status
LastItems == IF srResp # NoResponse THEN srResp.items ELSE pgPages[Len(pgPages)].items

\* the request was stopped by one of the two guards of the handlers
GuardCase == normalizeQuery(Trim(sqQuery)) = <<>> \/ ~vectorsEnabled(env)

\* C11: a search request whose query normalizes to the empty string, or that
\* arrives while a provider setting is missing, is answered with status 200
\* and an empty result (for the paged form: no items, next_cursor null,
\* total_estimate 0), and makes no call to the embedding provider or the
\* vector store.
C11_GuardsAnswerEmpty ==
    (GuardCase /\ Answered) =>
        /\ LastStatus = 200
        /\ LastItems = <<>>
        /\ upCalls = <<>>
        /\ pgPages # <<>> =>
              /\ pgPages[Len(pgPages)].next_cursor = Null
              /\ pgPages[Len(pgPages)].total_estimate = 0

C11_Witness ==
    /\ normalizeQuery(Trim(sqQuery)) # <<>>
    /\ env["QDRANT_URL"] /\ env["QDRANT_API_KEY"] /\ ~env["JINA_API_KEY"]
    /\ pgPages # <<>>
    /\ store # <<>>

\* C12: when ensureCollection, the embedding or the vector search throws
\* during a query, the request is answered with an empty result and not with
\* an error response.
C12_FailSoft ==
    (Answered /\ \E k \in 1..Len(upCalls) : upCalls[k].threw) =>
        LastStatus = 200 /\ LastItems = <<>>

\* C20: in every successful /searchPaged response total_estimate is the number
\* of items left after name-deduplication of the hits retrieved for the
\* request, which are at most min(1000, 2 x page x pageSize); items has at
\* most pageSize (at most 50) entries; next_cursor is non-null exactly when
\* page x pageSize < total_estimate, and then encodes page + 1.
C20_PagedEnvelope ==
    \A p \in 1..Len(pgPages) :
        LET r    == pgPages[p]
            ps   == pageSizeFor(sqLimit)
            hits == vectorSearch(store, Min(PoolCap, 2 * r.page * ps))
        IN  r.status = 200 =>
              /\ r.page = p
              /\ Len(hits) <= Min(1000, 2 * r.page * ps)
              /\ r.total_estimate =
                    IF GuardCase THEN 0 ELSE Len(dedupeByTeamNameScore(hitsToItems(hits)))
              /\ Len(r.items) <= ps
              /\ ps <= 50
              /\ (r.next_cursor # Null) <=> (r.page * ps < r.total_estimate)
              /\ r.next_cursor # Null =>
                    /\ r.next_cursor = Chars("{\"page\":") \o DecimalString(r.page + 1) \o Chars("}")
                    /\ cursorPage(r.next_cursor) = r.page + 1

C20_Witness ==
    \E p \in 1..Len(pgPages) :
        /\ pgPages[p].status = 200
        /\ pgPages[p].page = 2
        /\ pgPages[p].next_cursor # Null
        /\ pgPages[p].total_estimate = 3
        /\ Len(pgPages[p].items) = 1

\* the fused score the endpoint gives a retrieved hit
FusedScoreOf(ep, hit) == fusedItem(ep, sqQuery, Item(hit.payload, hit.score)).score

\* the returned items carry distinct names, and none of the retrieved hits
\* that share the name of a returned item has a higher fused score than it
BestFusedPerName(ep, items, hits) ==
    /\ \A i, j \in 1..Len(items) : i # j => dedupeKey(items[i]) # dedupeKey(items[j])
    /\ \A i \in 1..Len(items) : \A k \in 1..Len(hits) :
          dedupeKey(Item(hits[k].payload, hits[k].score)) = dedupeKey(items[i])
              => FusedScoreOf(ep, hits[k]) <= items[i].score

\* C26: in every search response, for each display name the one returned
\* record is the one with the highest final (fused) score among all retrieved
\* candidates that share the normalized name.
C26_DedupKeepsBestFused ==
    /\ (Answered /\ srResp.status = 200)
          => BestFusedPerName(srResp.endpoint, srResp.items,
                              vectorSearch(store, searchLimit(sqLimit)))
    /\ \A p \in 1..Len(pgPages) :
          pgPages[p].status = 200
              => BestFusedPerName("POST /searchPaged", pgPages[p].items,
                                  vectorSearch(store, candidatesK(pgPages[p].page, pageSizeFor(sqLimit))))

(***************************************************************************)
(* Embedding client: embedText and embedBatch against a provider whose     *)
(* answers are given by a script.  A request is logged with its inputs and *)
(* the status it got; status 0 stands for a request that yields no HTTP    *)
(* error status (the fetch rejects, or the body of a 200 is malformed).    *)
(***************************************************************************)

\* Number(process.env.JINA_MAX_RETRIES || 2)
MAX_RETRIES == 2

ProviderStatuses == { 200, 400, 429, 500, 503, 0 }

\* status === 500 || status === 503 || status === 429
retriable(status) == status = 500 \/ status = 503 \/ status = 429

\* the `task` of a request to the provider
QueryTask == "retrieval.query"
PassageTask == "retrieval.passage"

\* the vector the provider returns for a text embedded under a task
VecOf(task, text) == [embeddingOf |-> text, task |-> task]

\* the vector the provider returns for a text in query mode
Vec(text) == VecOf(QueryTask, text)

\* The provider's answer to the n-th request: 400 for a request that holds a
\* text it rejects permanently, else the scripted status, else 200
providerStatus(inputs, n, bad, script) ==
    IF \E i \in 1..Len(inputs) : inputs[i] \in bad THEN 400
    ELSE IF n <= Len(script) THEN script[n]
    ELSE 200

Thrown(reqs, status) == [ok |-> FALSE, vectors |-> <<>>, reqs |-> reqs, error |-> status]
Returned(reqs, vectors) == [ok |-> TRUE, vectors |-> vectors, reqs |-> reqs, error |-> 0]

\* the for-loop of embedText from the given attempt on; reqs is the log so far
RECURSIVE embedTextFrom(_, _, _, _, _)
embedTextFrom(text, attempt, reqs, bad, script) ==
    LET status == providerStatus(<<text>>, Len(reqs) + 1, bad, script)
        logged == Append(reqs, [by |-> "embedText", task |-> QueryTask, inputs |-> <<text>>,
                                status |-> status])
    IN  IF status = 200 THEN Returned(logged, <<Vec(text)>>)
        ELSE IF attempt < MAX_RETRIES /\ retriable(status)
        THEN embedTextFrom(text, attempt + 1, logged, bad, script)
        ELSE Thrown(logged, status)

\* embedText(text); error -1 is 'JINA_API_KEY is missing'
embedText(text, keySet, reqs, bad, script) ==
    IF ~keySet THEN Thrown(reqs, -1)
    ELSE embedTextFrom(text, 0, reqs, bad, script)

\* the for-loop of embedBatch from the given attempt on, its catch branch
\* splitting the batch or falling back to embedText
RECURSIVE embedBatchFrom(_, _, _, _, _, _)
embedBatchFrom(texts, attempt, keySet, reqs, bad, script) ==
    IF texts = <<>> THEN Returned(reqs, <<>>)
    ELSE
    LET status == providerStatus(texts, Len(reqs) + 1, bad, script)
        logged == Append(reqs, [by |-> "embedBatch", task |-> PassageTask, inputs |-> texts,
                                status |-> status])
        mid    == Len(texts) \div 2
    IN  IF status = 200 THEN Returned(logged, [i \in 1..Len(texts) |-> VecOf(PassageTask, texts[i])])
        ELSE IF attempt < MAX_RETRIES /\ retriable(status)
        THEN embedBatchFrom(texts, attempt + 1, keySet, logged, bad, script)
        ELSE IF Len(texts) > 1
        THEN TheOne({ IF ~left.ok THEN left
                      ELSE TheOne({ IF ~right.ok THEN right
                                    ELSE Returned(right.reqs, left.vectors \o right.vectors) :
                                    right \in { embedBatchFrom(SubSeq(texts, mid + 1, Len(texts)), 0,
                                                               keySet, left.reqs, bad, script) } }) :
                      left \in { embedBatchFrom(SubSeq(texts, 1, mid), 0, keySet, logged, bad, script) } })
        ELSE embedText(texts[1], keySet, logged, bad, script)

\* embedBatch(texts)
embedBatch(texts, keySet, bad, script) == embedBatchFrom(texts, 0, keySet, <<>>, bad, script)

(***************************************************************************)
(* Harness of the embedding client                                         *)
(***************************************************************************)

MaxBatch == 3
MaxScript == 3
EmTextValues == { "a", "b" }
EmBadValues == { {}, { "b" } }

SeqsUpTo(S, n) == UNION { [1..k -> S] : k \in 0..n }

EmbedInit ==
    /\ emPc = "start"
    /\ emTexts \in SeqsUpTo(EmTextValues, MaxBatch)
    /\ emKey \in BOOLEAN
    /\ emBad \in EmBadValues
    /\ emScript \in SeqsUpTo(ProviderStatuses, MaxScript)
    /\ emCall = "none"
    /\ emOut = NoOutcome
    /\ PipelineIdle
    /\ RetryIdle
    /\ IndexIdle
    /\ CacheIdle
    /\ HedgeIdle
    /\ EnsureIdle
    /\ AuxIdle

\* embedText(emTexts[0]); String(text || '') of an absent text is ''
CallEmbedText ==
    /\ emPc = "start"
    /\ Len(emTexts) <= 1
    /\ emPc' = "done"
    /\ emCall' = "embedText"
    /\ emOut' = embedText(IF emTexts = <<>> THEN "" ELSE emTexts[1], emKey, <<>>, emBad, emScript)
    /\ UNCHANGED <<emTexts, emKey, emBad, emScript>>
    /\ UNCHANGED <<auxVars, pipelineVars, retryVars, indexVars, cacheVars, hedgeVars, ensureVars>>

CallEmbedBatch ==
    /\ emPc = "start"
    /\ emPc' = "done"
    /\ emCall' = "embedBatch"
    /\ emOut' = embedBatch(emTexts, emKey, emBad, emScript)
    /\ UNCHANGED <<emTexts, emKey, emBad, emScript>>
    /\ UNCHANGED <<auxVars, pipelineVars, retryVars, indexVars, cacheVars, hedgeVars, ensureVars>>

EmbedNext == CallEmbedText \/ CallEmbedBatch

SpecEmbed == EmbedInit /\ [][EmbedNext]_vars

\* request j is issued after request k for one of the inputs of request k
RepeatsInputOf(reqs, k, j) ==
    /\ k < j
    /\ \E a \in 1..Len(reqs[k].inputs), b \in 1..Len(reqs[j].inputs) :
           reqs[k].inputs[a] = reqs[j].inputs[b]

\* an error status the provider answered with that the client does not retry
NonRetryable(status) == status \notin { 0, 200, 429, 500, 503 }

\* C13: when the provider answers a request of embedText or embedBatch with a
\* non-retryable status, the client issues no further provider request for
\* the inputs of that request and surfaces the failure to its caller.
C13_PermanentErrorNotRetried ==
    emPc = "done" =>
        \A k \in 1..Len(emOut.reqs) :
            NonRetryable(emOut.reqs[k].status) =>
                /\ ~emOut.ok
                /\ \A j \in 1..Len(emOut.reqs) : ~RepeatsInputOf(emOut.reqs, k, j)

(***************************************************************************)
(* The retrying operations, one loop iteration per step: the request is    *)
(* issued, settles with a status (200: success, 0: an error without a      *)
(* status code), and the iteration returns, throws or goes round again.    *)
(***************************************************************************)

\* fetchSheetWithRetry(sheets, range, retries = 5, delayMs = 2000)
retries == 5

\* batchWriteValues({ ..., maxRetries = 6 })
maxRetries == 6

\* (error.code === 503 || error.code === 429) && i < retries - 1
fetchShouldRetry(code, i) == (code = 503 \/ code = 429) /\ i < retries - 1

\* a write loop that also goes round again after a 500 (for comparison)
batchShouldRetryOn500(code, attempt) ==
    (code = 429 \/ code = 503 \/ code = 500) /\ attempt < maxRetries

\* (code === 429 || code === 503) && attempt < maxRetries
batchShouldRetry(code, attempt) == (code = 429 \/ code = 503) /\ attempt < maxRetries

\* attempt < MAX_RETRIES && retriable
embedShouldRetry(status, attempt) == attempt < MAX_RETRIES /\ retriable(status)

MaxChunks == 2
RetryOps == { "fetchSheetWithRetry", "batchWriteValues", "embedText" }

RetryInit ==
    /\ rtPc = "running"
    /\ rtOp \in RetryOps
    /\ rtChunks \in IF rtOp = "batchWriteValues" THEN 1..MaxChunks ELSE { 0 }
    /\ rtChunk = IF rtOp = "batchWriteValues" THEN 1 ELSE 0
    /\ rtAttempt = 0
    /\ rtCount = 0
    /\ rtLast = -1
    /\ rtRetried = {}
    /\ PipelineIdle
    /\ EmbedIdle
    /\ IndexIdle
    /\ CacheIdle
    /\ HedgeIdle
    /\ EnsureIdle
    /\ AuxIdle

\* one iteration of the for-loop of fetchSheetWithRetry; leaving the loop by
\* its condition makes the function return undefined
FetchSheetAttempt ==
    /\ rtPc = "running"
    /\ rtOp = "fetchSheetWithRetry"
    /\ \E code \in ProviderStatuses :
         /\ rtLast' = code
         /\ rtCount' = rtCount + 1
         /\ IF code = 200
            THEN rtPc' = "returned" /\ UNCHANGED <<rtAttempt, rtRetried>>
            ELSE IF fetchShouldRetry(code, rtAttempt)
            THEN /\ rtAttempt' = rtAttempt + 1
                 /\ rtRetried' = rtRetried \cup { code }
                 /\ rtPc' = IF rtAttempt + 1 < retries THEN "running" ELSE "returned"
            ELSE rtPc' = "thrown" /\ UNCHANGED <<rtAttempt, rtRetried>>
    /\ UNCHANGED <<rtOp, rtChunks, rtChunk>>
    /\ UNCHANGED <<auxVars, pipelineVars, embedVars, indexVars, cacheVars, hedgeVars, ensureVars>>

\* one iteration of the while-loop of batchWriteValues for the current chunk;
\* a successful write breaks out to the next chunk
BatchWriteAttempt ==
    /\ rtPc = "running"
    /\ rtOp = "batchWriteValues"
    /\ \E code \in ProviderStatuses :
         /\ rtLast' = code
         /\ IF code = 200
            THEN IF rtChunk < rtChunks
                 THEN /\ rtChunk' = rtChunk + 1
                      /\ rtAttempt' = 0
                      /\ rtCount' = 0
                      /\ rtPc' = "running"
                      /\ UNCHANGED rtRetried
                 ELSE /\ rtCount' = rtCount + 1
                      /\ rtPc' = "returned"
                      /\ UNCHANGED <<rtChunk, rtAttempt, rtRetried>>
            ELSE IF batchShouldRetry(code, rtAttempt)
            THEN /\ rtAttempt' = rtAttempt + 1
                 /\ rtCount' = rtCount + 1
                 /\ rtRetried' = rtRetried \cup { code }
                 /\ UNCHANGED <<rtChunk, rtPc>>
            ELSE /\ rtCount' = rtCount + 1
                 /\ rtPc' = "thrown"
                 /\ UNCHANGED <<rtChunk, rtAttempt, rtRetried>>
    /\ UNCHANGED <<rtOp, rtChunks>>
    /\ UNCHANGED <<auxVars, pipelineVars, embedVars, indexVars, cacheVars, hedgeVars, ensureVars>>

\* one iteration of the for-loop of embedText
EmbedTextAttempt ==
    /\ rtPc = "running"
    /\ rtOp = "embedText"
    /\ \E status \in ProviderStatuses :
         /\ rtLast' = status
         /\ rtCount' = rtCount + 1
         /\ IF status = 200
            THEN rtPc' = "returned" /\ UNCHANGED <<rtAttempt, rtRetried>>
            ELSE IF embedShouldRetry(status, rtAttempt)
            THEN /\ rtAttempt' = rtAttempt + 1
                 /\ rtRetried' = rtRetried \cup { status }
                 /\ rtPc' = IF rtAttempt + 1 <= MAX_RETRIES THEN "running" ELSE "thrown"
            ELSE rtPc' = "thrown" /\ UNCHANGED <<rtAttempt, rtRetried>>
    /\ UNCHANGED <<rtOp, rtChunks, rtChunk>>
    /\ UNCHANGED <<auxVars, pipelineVars, embedVars, indexVars, cacheVars, hedgeVars, ensureVars>>

RetryNext == FetchSheetAttempt \/ BatchWriteAttempt \/ EmbedTextAttempt

\* every request settles and every back-off timer fires, so a running
\* operation always gets to its next iteration
SpecRetry == RetryInit /\ [][RetryNext]_vars /\ WF_vars(RetryNext)

AttemptLimit ==
    IF rtOp = "fetchSheetWithRetry" THEN 5
    ELSE IF rtOp = "batchWriteValues" THEN 7
    ELSE 3

RetriedStatuses ==
    IF rtOp = "embedText" THEN { 429, 500, 503 } ELSE { 429, 503 }

RetryBounds ==
    /\ rtCount <= AttemptLimit
    /\ rtRetried \subseteq RetriedStatuses
    /\ rtPc = "returned" => rtLast = 200
    /\ (rtCount = AttemptLimit /\ rtLast # 200) => rtPc = "thrown"

\* C15: every retrying operation has a bounded attempt count and terminates
\* when each request settles: fetchSheetWithRetry issues at most 5 reads,
\* batchWriteValues at most 7 writes per chunk, embedText at most 3 requests;
\* only 429 and 503 (and 500 for embeddings) are retried, and after the last
\* attempt the error is thrown to the caller.
C15_BoundedRetries == []RetryBounds /\ <>(rtPc \in { "returned", "thrown" })

C15_Witness ==
    /\ rtOp = "batchWriteValues"
    /\ rtChunk = 2
    /\ rtCount = 7
    /\ rtPc = "thrown"
    /\ rtRetried = { 429, 503 }

(***************************************************************************)
(* Indexing: POST /indexVectors over the catalog sheet                     *)
(***************************************************************************)

\* if (order.<field>) parts.push(`<label>${S(order.<field>)}`), S trimming
labelled(label, v) == IF v # <<>> THEN << Chars(label) \o Trim(v) >> ELSE <<>>

\* the loop over sp1..sp10 / spcv1..spcv10; the sheet has no sp columns
specialistParts(o) ==
    LET cvFields == << "spcv1", "spcv2", "spcv3", "spcv4", "spcv5",
                       "spcv6", "spcv7", "spcv8", "spcv9", "spcv10" >>
        part(i)  == IF Trim(o[cvFields[i]]) # <<>>
                    THEN << Chars("Specialist Role:  | Specialist Experience: ")
                            \o Trim(o[cvFields[i]]) >>
                    ELSE <<>>
    IN  part(1) \o part(2) \o part(3) \o part(4) \o part(5)
        \o part(6) \o part(7) \o part(8) \o part(9) \o part(10)

\* buildSearchText(order), for the columns of OrderFields
buildSearchText(o) ==
    LET svc == Trim(o.Type)
        ind == Trim(o.Type2)
        primaryChunks == (IF svc # <<>> THEN <<svc>> ELSE <<>>)
                         \o (IF ind # <<>> THEN <<ind>> ELSE <<>>)
        primary == IF primaryChunks # <<>>
                   THEN << Chars("Primary Focus: ") \o Join(primaryChunks, Chars(" | "))
                           \o Chars(" || ") \o Join(primaryChunks, Chars(" | ")) >>
                   ELSE <<>>
        parts == primary
                 \o labelled("Team: ", o.TeamName)
                 \o (IF svc # <<>> THEN << Chars("Service/Offering Tags: ") \o svc >> ELSE <<>>)
                 \o (IF ind # <<>> THEN << Chars("Industry Expertise: ") \o ind >> ELSE <<>>)
                 \o labelled("Market Expertise: ", o.industrymarket_expertise)
                 \o labelled("Overview: ", o.X1Q)
                 \o labelled("Keywords: ", o.Textarea)
                 \o labelled("Partner confirmation: ", o.Partner_confirmation)
                 \o specialistParts(o)
    IN  Join(FilterOut(parts, { <<>> }), Chars(" | "))

\* PUT /collections/<c>/points: a point replaces the stored point of its id
RECURSIVE upsertPoints(_, _)
upsertPoints(stored, points) ==
    IF points = <<>> THEN stored
    ELSE upsertPoints({ p \in stored : p.id # Head(points).id } \cup { Head(points) },
                      Tail(points))

\* try { await deletePointsByTeamNames(...) } catch (_) {}: the file defines no
\* such function, the call throws a ReferenceError, and the catch swallows it
deletePointsByTeamNames(stored, names) == stored

\* what can go wrong in a run besides the embedding of a rejected text
IndexFaults == { "none", "fetchSheetWithRetry", "ensureCollection", "upsertPoints" }

\* The batch loop of /indexVectors from row offset i on: embed the slice,
\* build its points, upsert them.  A throw ends the run with status 500 and
\* leaves the collection as the earlier batches made it.
RECURSIVE indexBatches(_, _, _, _, _, _, _, _, _)
indexBatches(orders, i, BATCH, stored, upserted, reqs, bad, script, fault) ==
    IF i >= Len(orders)
    THEN [status |-> 200, upserted |-> upserted, points |-> stored]
    ELSE
    LET slice == SubSeq(orders, i + 1, Min(i + BATCH, Len(orders)))
        texts == [k \in 1..Len(slice) |-> buildSearchText(slice[k])]
    IN  TheOne({
          IF ~emb.ok
          THEN [status |-> 500, upserted |-> upserted, points |-> stored]
          ELSE IF fault = "upsertPoints"
          THEN [status |-> 500, upserted |-> upserted, points |-> stored]
          ELSE indexBatches(orders, i + BATCH, BATCH,
                 upsertPoints(deletePointsByTeamNames(stored, slice),
                    [k \in 1..Len(slice) |->
                        [id |-> stableIdForOrder(slice[k]), vector |-> emb.vectors[k],
                         payload |-> slice[k], row |-> i + k]]),
                 upserted + Len(slice), emb.reqs, bad, script, fault) :
          emb \in { embedBatchFrom(texts, 0, TRUE, reqs, bad, script) } })

\* POST /indexVectors
indexVectors(e, orders, BATCH, stored, bad, script, fault) ==
    IF ~(e["QDRANT_URL"] /\ e["QDRANT_API_KEY"] /\ e["JINA_API_KEY"])
    THEN [status |-> 500, upserted |-> 0, points |-> stored]
    ELSE IF fault = "fetchSheetWithRetry" \/ fault = "ensureCollection"
    THEN [status |-> 500, upserted |-> 0, points |-> stored]
    ELSE indexBatches(orders, 0, BATCH, stored, 0, <<>>, bad, script, fault)

(***************************************************************************)
(* Harness of the indexing                                                 *)
(***************************************************************************)

MaxCatalog == 2
MaxEdits == 1
MaxRuns == 2
IxNames == { Chars("A"), Chars("B") }
IxTypes == { Chars("seo"), Chars("pr") }
IxPartners == { <<>>, Chars("p") }
IxRecords ==
    { [EmptyOrder EXCEPT !.TeamName = n, !.Type = t] : n \in IxNames, t \in IxTypes }
\* the provider's answers to the first requests of a run: none scripted, or an
\* outage that lasts as long as the attempts embedBatch makes for one batch
IxScripts == { <<>>, <<503, 503, 503>> }
IxEnvs ==
    { [v \in ProviderSettings |-> TRUE], [v \in ProviderSettings |-> v # "JINA_API_KEY"] }

IndexInit ==
    /\ ixPc = "ready"
    /\ ixCatalog \in UNION { [1..n -> IxRecords] : n \in 1..MaxCatalog }
    /\ ixPoints = {}
    /\ ixBad \in SUBSET { Chars("B") }
    /\ ixBatch \in { 1, 32 }
    /\ ixResp = NoRun
    /\ ixEdits = 0
    /\ ixRuns = 0
    /\ env \in IxEnvs
    /\ store = <<>>
    /\ sqQuery = <<>>
    /\ sqLimit = 0
    /\ srResp = NoResponse
    /\ pgPages = <<>>
    /\ upCalls = <<>>
    /\ NormIdle /\ IdentIdle /\ DedupeIdle /\ FuseIdle /\ MmrIdle
    /\ EmbedIdle
    /\ RetryIdle
    /\ CacheIdle
    /\ HedgeIdle
    /\ EnsureIdle
    /\ AuxIdle

\* the texts of the catalog the provider rejects
BadTexts(orders) ==
    { buildSearchText(orders[k]) : k \in { j \in 1..Len(orders) : orders[j].TeamName \in ixBad } }

\* an edit of one cell of the sheet: the name, the tags or the partner of a row
EditRecord ==
    /\ ixPc = "ready"
    /\ ixEdits < MaxEdits
    /\ \E i \in 1..Len(ixCatalog) :
         \/ \E n \in IxNames : ixCatalog' = [ixCatalog EXCEPT ![i].TeamName = n]
         \/ \E t \in IxTypes : ixCatalog' = [ixCatalog EXCEPT ![i].Type = t]
         \/ \E q \in IxPartners : ixCatalog' = [ixCatalog EXCEPT ![i].partner = q]
    /\ ixCatalog' # ixCatalog
    /\ ixEdits' = ixEdits + 1
    /\ UNCHANGED <<ixPc, ixPoints, ixBad, ixBatch, ixResp, ixRuns>>
    /\ UNCHANGED <<auxVars, pipelineVars, embedVars, retryVars, cacheVars, hedgeVars, ensureVars>>

IndexVectors ==
    /\ ixPc = "ready"
    /\ ixRuns < MaxRuns
    /\ \E fault \in IndexFaults, script \in IxScripts :
         \E run \in { indexVectors(env, ixCatalog, ixBatch, ixPoints, BadTexts(ixCatalog), script, fault) } :
            /\ ixPoints' = run.points
            /\ ixResp' = [status |-> run.status, upserted |-> run.upserted, fault |-> fault,
                          script |-> script]
    /\ ixRuns' = ixRuns + 1
    /\ UNCHANGED <<ixPc, ixCatalog, ixBad, ixBatch, ixEdits>>
    /\ UNCHANGED <<auxVars, pipelineVars, embedVars, retryVars, cacheVars, hedgeVars, ensureVars>>

IndexNext == EditRecord \/ IndexVectors

SpecIndex == IndexInit /\ [][IndexNext]_vars

\* the rows whose text the provider rejects
BadRows == { k \in 1..Len(ixCatalog) : ixCatalog[k].TeamName \in ixBad }

HasPoint(k) == \E p \in ixPoints : p.id = stableIdForOrder(ixCatalog[k])

\* C14: during /indexVectors, if the embedding of one record's text fails
\* permanently, all other records of that batch and of later batches are
\* still embedded and upserted, and the run is not aborted.
C14_FailureIsolated ==
    ( /\ ixRuns > 0
      /\ ixEdits = 0
      /\ vectorsEnabled(env)
      /\ ixResp.fault = "none"
      /\ ixResp.script = <<>>
      /\ Cardinality(BadRows) = 1 ) =>
        /\ ixResp.status = 200
        /\ \A k \in (1..Len(ixCatalog)) \ BadRows : HasPoint(k)

\* C23: every vector upserted by /indexVectors was produced by the provider in
\* passage mode (task retrieval.passage), on every path through embedBatch:
\* retries, batch splitting and the single-item fallback.
C23_UpsertedInPassageMode ==
    \A p \in ixPoints : p.vector.task = PassageTask

\* C19: after any sequence of catalog edits and /indexVectors runs the
\* collection holds at most one point per catalog record.
C19_OnePointPerRecord ==
    \A k \in 1..Len(ixCatalog) : Cardinality({ p \in ixPoints : p.row = k }) <= 1

(***************************************************************************)
(* Query-embedding cache: _embGet, _embSet and embedTextCached.  The Map is *)
(* the sequence of its entries in insertion order; an entry carries, next  *)
(* to its value, the number ins of its key's insertion.  Time is counted in *)
(* minutes.                                                                *)
(***************************************************************************)

\* process.env.JINA_MODEL || 'jina-embeddings-v4'
CURRENT_MODEL == Chars("jina-embeddings-v4")

\* Number(process.env.EMB_DIM || 2048)
CURRENT_DIM == 2048

\* Number(process.env.EMB_TTL_MS || 2 * 60 * 1000), in minutes
EMB_TTL == 2

\* the soft cap of the Map, if (_EMB_CACHE.size > 1000), scaled down to a size
\* at which overflow happens within a few calls
CacheCap == 3

\* `${CURRENT_MODEL}|${CURRENT_DIM}|${String(q || '').trim()}`
cacheKey(q) == CURRENT_MODEL \o <<"|">> \o DecimalString(CURRENT_DIM) \o <<"|">> \o Trim(q)

\* the position of a key in the Map, 0 when absent
mapIndexOf(cache, key) ==
    IF \E i \in 1..Len(cache) : cache[i].key = key
    THEN CHOOSE i \in 1..Len(cache) : cache[i].key = key
    ELSE 0

\* _EMB_CACHE.delete(key) by position
mapDeleteAt(cache, i) == SubSeq(cache, 1, i - 1) \o SubSeq(cache, i + 1, Len(cache))

\* _EMB_CACHE.set(key, value): a present key keeps its place, a new one goes last
mapSet(cache, key, vec, exp, ins) ==
    LET i == mapIndexOf(cache, key)
    IN  IF i > 0 THEN [cache EXCEPT ![i].vec = vec, ![i].exp = exp]
        ELSE Append(cache, [key |-> key, vec |-> vec, exp |-> exp, ins |-> ins])

\* v && v.exp > Date.now()
isFresh(entry, now) == entry.exp > now

\* an overflow step that removes the newest entry (for comparison)
evictNewest(cache) == IF Len(cache) > CacheCap THEN SubSeq(cache, 1, Len(cache) - 1) ELSE cache

\* if (size > 1000) delete(keys().next().value)
evictOverflow(cache) == IF Len(cache) > CacheCap THEN Tail(cache) ELSE cache

(***************************************************************************)
(* Harness of the cache                                                    *)
(***************************************************************************)

MaxCalls == 3
MaxTime == 3

\* the query whose key was the i-th one inserted before the run starts
EarlierQuery(i) == <<"q">> \o DecimalString(i)

\* a Map filled by n earlier misses, the first of them a minute before the rest
FilledCache(n) ==
    [i \in 1..n |-> [key |-> cacheKey(EarlierQuery(i)), vec |-> Vec(cacheKey(EarlierQuery(i))),
                     exp |-> IF i = 1 THEN 1 ELSE 2, ins |-> i]]

EcFills == { 0, CacheCap - 1, CacheCap }
EcQueries == { EarlierQuery(1), EarlierQuery(2), Chars("x"), Chars(" x"), Chars("y") }

CacheInit ==
    /\ \E n \in EcFills : ecCache = FilledCache(n) /\ ecSeq = n
    /\ ecNow = 0
    /\ ecPending = {}
    /\ ecCalls = 0
    /\ ecLast = Null
    /\ ecEvicted = Null
    /\ ecReturned = Null
    /\ PipelineIdle
    /\ EmbedIdle
    /\ RetryIdle
    /\ IndexIdle
    /\ HedgeIdle
    /\ EnsureIdle
    /\ AuxIdle

Tick ==
    /\ ecNow < MaxTime
    /\ ecNow' = ecNow + 1
    /\ UNCHANGED <<ecCache, ecPending, ecCalls, ecSeq, ecLast, ecEvicted, ecReturned>>
    /\ UNCHANGED <<auxVars, pipelineVars, embedVars, retryVars, indexVars, hedgeVars, ensureVars>>

\* embedTextCached(q) up to its await: _embGet(key), which returns a fresh
\* entry and deletes a stale one; on a miss the call goes on to embedText(key)
CachedLookup ==
    /\ ecCalls < MaxCalls
    /\ \E q \in EcQueries :
         LET key == cacheKey(q)
             i   == mapIndexOf(ecCache, key)
         IN  IF i > 0 /\ isFresh(ecCache[IF i > 0 THEN i ELSE 1], ecNow)
             THEN /\ ecLast' = [key |-> key, hit |-> TRUE, entry |-> ecCache[i], at |-> ecNow]
                  /\ ecReturned' = [q |-> q, hit |-> TRUE, vec |-> ecCache[i].vec]
                  /\ UNCHANGED <<ecCache, ecPending>>
             ELSE /\ ecLast' = [key |-> key, hit |-> FALSE, entry |-> Null, at |-> ecNow]
                  /\ ecCache' = IF i > 0 THEN mapDeleteAt(ecCache, i) ELSE ecCache
                  /\ ecPending' = ecPending \cup { [id |-> ecCalls + 1, key |-> key, q |-> q] }
                  /\ UNCHANGED ecReturned
    /\ ecCalls' = ecCalls + 1
    /\ UNCHANGED <<ecNow, ecSeq, ecEvicted>>
    /\ UNCHANGED <<auxVars, pipelineVars, embedVars, retryVars, indexVars, hedgeVars, ensureVars>>

\* embedText(key) resolves: _embSet(key, vec) and the overflow step
EmbedReturns ==
    /\ \E call \in ecPending :
         LET isNew == mapIndexOf(ecCache, call.key) = 0
             set   == mapSet(ecCache, call.key, Vec(call.key), ecNow + EMB_TTL, ecSeq + 1)
             kept  == evictOverflow(set)
         IN  /\ ecCache' = kept
             /\ ecSeq' = IF isNew THEN ecSeq + 1 ELSE ecSeq
             /\ ecEvicted' = IF Len(kept) < Len(set)
                             THEN [entries |-> { set[k] : k \in 1..Len(set) } \ { kept[k] : k \in 1..Len(kept) },
                                   oldestLeft |-> kept[1].ins, sizeBefore |-> Len(set)]
                             ELSE ecEvicted
             /\ ecPending' = ecPending \ { call }
             /\ ecReturned' = [q |-> call.q, hit |-> FALSE, vec |-> Vec(call.key)]
    /\ UNCHANGED <<ecNow, ecCalls, ecLast>>
    /\ UNCHANGED <<auxVars, pipelineVars, embedVars, retryVars, indexVars, hedgeVars, ensureVars>>

\* embedText(key) throws: the call ends without touching the Map
EmbedThrows ==
    /\ \E call \in ecPending : ecPending' = ecPending \ { call }
    /\ UNCHANGED <<ecCache, ecNow, ecCalls, ecSeq, ecLast, ecEvicted, ecReturned>>
    /\ UNCHANGED <<auxVars, pipelineVars, embedVars, retryVars, indexVars, hedgeVars, ensureVars>>

CacheNext == Tick \/ CachedLookup \/ EmbedReturns \/ EmbedThrows

SpecCache == CacheInit /\ [][CacheNext]_vars

\* C16: after any sequence of embedTextCached calls the cache holds at most
\* as many entries as its cap (1000 in the code, CacheCap here), the entry
\* removed on overflow is the oldest-inserted one, and a lookup never returns
\* an entry whose TTL has expired.
C16_CacheBoundedFresh ==
    /\ Len(ecCache) <= CacheCap
    /\ ecEvicted # Null =>
          /\ Cardinality(ecEvicted.entries) = 1
          /\ \A e \in ecEvicted.entries : e.ins < ecEvicted.oldestLeft
          /\ \A k \in 1..Len(ecCache) : \A e \in ecEvicted.entries : e.ins < ecCache[k].ins
    /\ (ecLast # Null /\ ecLast.hit) =>
          /\ ecLast.entry.key = ecLast.key
          /\ ecLast.entry.exp > ecLast.at

C16_Witness ==
    /\ ecEvicted # Null
    /\ Len(ecCache) = CacheCap
    /\ ecLast # Null
    /\ ecLast.hit
    /\ ecLast.key = cacheKey(Chars("x"))

\* C22: the cache is transparent: for every normalized query q,
\* embedTextCached(q), on a miss and on a hit, returns the vector the provider
\* gives for the text q itself, the result of an uncached query-mode embed of q.
C22_CacheTransparent ==
    (ecReturned # Null /\ normalizeQuery(ecReturned.q) = ecReturned.q)
        => ecReturned.vec = Vec(ecReturned.q)

(***************************************************************************)
(* embedTextHedged: the primary request A, the hedge timer that starts the *)
(* hedge request B, the race's own timer after which the race also waits   *)
(* for B, and the fresh attempt F.  Each step is one callback of the event *)
(* loop; a request settles with a status ("0": no HTTP status).            *)
(***************************************************************************)

HedgeStatuses == { "200", "400", "429", "500", "503", "0" }

IsInFlight(r) == hgReq[r] = "inflight"
IsSettled(r) == hgReq[r] \in HedgeStatuses

\* ctrl.abort(): ends a request in flight, does nothing to a settled one
abort(reqs, r) == IF reqs[r] = "inflight" THEN [reqs EXCEPT ![r] = "aborted"] ELSE reqs

\* if (startedB && B) B.abort(); A.abort();
cancelLosers(reqs, startedB) == abort(IF startedB THEN abort(reqs, "B") ELSE reqs, "A")

\* a clearTimeout that leaves the timer armed (for comparison)
clearTimeoutLate(timer) == timer

\* clearTimeout(startBTimer): disarms a timer that has not fired yet
clearTimeout(timer) == IF timer = "armed" THEN "cleared" ELSE timer

\* after the synchronous part of the call: a missing key throws at once,
\* otherwise A is in flight and both timers are set
HedgeInit ==
    /\ \E keySet \in BOOLEAN :
         IF keySet
         THEN /\ hgPc = "racing"
              /\ hgReq = [r \in HedgeRequests |-> IF r = "A" THEN "inflight" ELSE "none"]
              /\ hgTimer = "armed"
              /\ hgJoin = "waiting"
         ELSE /\ hgPc = "thrown"
              /\ hgReq = [r \in HedgeRequests |-> "none"]
              /\ hgTimer = "cleared"
              /\ hgJoin = "fired"
    /\ hgStartedB = FALSE
    /\ PipelineIdle
    /\ EmbedIdle
    /\ RetryIdle
    /\ IndexIdle
    /\ CacheIdle
    /\ EnsureIdle
    /\ AuxIdle

\* setTimeout(() => { B = makeOnce(); startedB = true; }, hedgeDelayMs)
HedgeTimerFires ==
    /\ hgTimer = "armed"
    /\ hgTimer' = "fired"
    /\ hgReq' = [hgReq EXCEPT !["B"] = "inflight"]
    /\ hgStartedB' = TRUE
    /\ UNCHANGED <<hgPc, hgJoin>>
    /\ UNCHANGED <<auxVars, pipelineVars, embedVars, retryVars, indexVars, cacheVars, ensureVars>>

\* the timer of hedgeDelayMs + 1 fires, after the hedge timer: from now on
\* the race also follows B.p, and adopts its outcome if B has settled already
RaceTimerFires ==
    /\ hgJoin = "waiting"
    /\ hgTimer # "armed"
    /\ hgJoin' = "fired"
    /\ IF hgPc = "racing" /\ hgStartedB /\ IsSettled("B")
       THEN IF hgReq["B"] = "200"
            THEN /\ hgPc' = "returned"
                 /\ hgReq' = cancelLosers(hgReq, hgStartedB)
            ELSE /\ hgPc' = "thrown"
                 /\ hgReq' = hgReq
       ELSE UNCHANGED <<hgPc, hgReq>>
    /\ UNCHANGED <<hgTimer, hgStartedB>>
    /\ UNCHANGED <<auxVars, pipelineVars, embedVars, retryVars, indexVars, cacheVars, ensureVars>>

\* the provider answers A
SettleA ==
    /\ IsInFlight("A")
    /\ \E status \in HedgeStatuses :
         IF hgPc = "racing"
         THEN IF status = "200"
              THEN /\ hgPc' = "returned"
                   /\ hgReq' = cancelLosers([hgReq EXCEPT !["A"] = status], hgStartedB)
                   /\ hgTimer' = clearTimeout(hgTimer)
              ELSE IF ~hgStartedB
              THEN /\ hgPc' = "fresh"
                   /\ hgReq' = [hgReq EXCEPT !["A"] = status, !["F"] = "inflight"]
                   /\ hgTimer' = clearTimeout(hgTimer)
              ELSE /\ hgPc' = "thrown"
                   /\ hgReq' = [hgReq EXCEPT !["A"] = status]
                   /\ hgTimer' = clearTimeout(hgTimer)
         ELSE /\ hgReq' = [hgReq EXCEPT !["A"] = status]
              /\ UNCHANGED <<hgPc, hgTimer>>
    /\ UNCHANGED <<hgJoin, hgStartedB>>
    /\ UNCHANGED <<auxVars, pipelineVars, embedVars, retryVars, indexVars, cacheVars, ensureVars>>

\* the provider answers B; the race sees it once its own timer has fired
SettleB ==
    /\ IsInFlight("B")
    /\ \E status \in HedgeStatuses :
         IF hgPc = "racing" /\ hgJoin = "fired"
         THEN IF status = "200"
              THEN /\ hgPc' = "returned"
                   /\ hgReq' = cancelLosers([hgReq EXCEPT !["B"] = status], hgStartedB)
              ELSE /\ hgPc' = "thrown"
                   /\ hgReq' = [hgReq EXCEPT !["B"] = status]
         ELSE /\ hgReq' = [hgReq EXCEPT !["B"] = status]
              /\ UNCHANGED hgPc
    /\ UNCHANGED <<hgTimer, hgJoin, hgStartedB>>
    /\ UNCHANGED <<auxVars, pipelineVars, embedVars, retryVars, indexVars, cacheVars, ensureVars>>

\* the provider answers the fresh attempt F
SettleF ==
    /\ hgPc = "fresh"
    /\ IsInFlight("F")
    /\ \E status \in HedgeStatuses :
         /\ hgReq' = abort([hgReq EXCEPT !["F"] = status], "F")
         /\ hgPc' = IF status = "200" THEN "returned" ELSE "thrown"
    /\ UNCHANGED <<hgTimer, hgJoin, hgStartedB>>
    /\ UNCHANGED <<auxVars, pipelineVars, embedVars, retryVars, indexVars, cacheVars, ensureVars>>

HedgeNext == HedgeTimerFires \/ RaceTimerFires \/ SettleA \/ SettleB \/ SettleF

SpecHedge == HedgeInit /\ [][HedgeNext]_vars

\* the requests the call has issued so far
Issued == { r \in HedgeRequests : hgReq[r] # "none" }

\* the call has ended
HedgeEnded == hgPc \in { "returned", "thrown" }

\* at most two requests; a fresh attempt only after a failed primary, never
\* together with a hedge request, and its outcome is the outcome of the call
HedgeRequestsBounded ==
    /\ Cardinality(Issued) <= 2
    /\ "F" \in Issued =>
          /\ hgReq["A"] \in HedgeStatuses \ { "200" }
          /\ "B" \notin Issued
          /\ ~hgStartedB
          /\ HedgeEnded => (hgPc = "returned" <=> hgReq["F"] = "200")

\* the hedge request starts only while the primary is still in flight
HedgeOnlyWhilePrimaryPending ==
    ("B" \notin Issued /\ hgReq'["B"] # "none") => hgReq["A"] = "inflight"

\* C24: embedTextHedged issues at most two provider requests in total: the
\* hedge request only if the primary has not settled when the hedge delay
\* elapses, and a fresh attempt only if the primary failed before the hedge
\* request was started, in which case no hedge request is ever issued and the
\* outcome of the fresh attempt is the outcome of the call.
C24_AtMostTwoRequests == []HedgeRequestsBounded /\ [][HedgeOnlyWhilePrimaryPending]_vars

\* The primary failed before the hedge delay, and the fresh attempt answered.
C24_Witness ==
    /\ hgPc = "returned"
    /\ hgReq["A"] = "503"
    /\ hgReq["F"] = "200"
    /\ hgTimer = "cleared"

\* C17: whenever embedTextHedged has settled (returned a vector or thrown),
\* under every interleaving of the primary request, the hedge timer and the
\* hedge request, none of the requests it issued is still in flight.
C17_LosersAborted ==
    hgPc \in { "returned", "thrown" } => \A r \in HedgeRequests : ~IsInFlight(r)

(***************************************************************************)
(* ensureCollection against the vector store, one request per step         *)
(***************************************************************************)

\* what GET /collections/<c> can answer; 0: qdrantFetch throws
getAnswers(exists) == IF exists THEN { 200, 503, 0 } ELSE { 404, 503, 0 }

\* what PUT /collections/<c> can answer: an existing collection is a conflict
putAnswers(exists) == IF exists THEN { 409 } ELSE { 200, 503 }

MaxEnsureCalls == 3

EnsureInit ==
    /\ enExists \in BOOLEAN
    /\ enPc = "done"
    /\ enLog = <<>>
    /\ enResult = "none"
    /\ enCalls = 0
    /\ PipelineIdle
    /\ EmbedIdle
    /\ RetryIdle
    /\ IndexIdle
    /\ CacheIdle
    /\ HedgeIdle
    /\ AuxIdle

\* a caller (a search, an indexing run, the warm-up) calls ensureCollection()
EnsureCall ==
    /\ enPc = "done"
    /\ enCalls < MaxEnsureCalls
    /\ enPc' = "get"
    /\ enCalls' = enCalls + 1
    /\ enResult' = "none"
    /\ UNCHANGED <<enExists, enLog>>
    /\ UNCHANGED <<auxVars, pipelineVars, embedVars, retryVars, indexVars, cacheVars, hedgeVars>>

\* try { info = await qdrantFetch(...); if (info.status === 200) return true } catch (_) {}
EnsureGet ==
    /\ enPc = "get"
    /\ \E status \in getAnswers(enExists) :
         /\ enLog' = Append(enLog, [call |-> enCalls, method |-> "GET", status |-> status,
                                    existed |-> enExists])
         /\ IF status = 200
            THEN enPc' = "done" /\ enResult' = "true"
            ELSE enPc' = "put" /\ UNCHANGED enResult
    /\ UNCHANGED <<enExists, enCalls>>
    /\ UNCHANGED <<auxVars, pipelineVars, embedVars, retryVars, indexVars, cacheVars, hedgeVars>>

\* create = await qdrantFetch(..., { method: 'PUT' }); if (!create.ok) throw
EnsurePut ==
    /\ enPc = "put"
    /\ \E status \in putAnswers(enExists) :
         /\ enLog' = Append(enLog, [call |-> enCalls, method |-> "PUT", status |-> status,
                                    existed |-> enExists])
         /\ enExists' = (enExists \/ status = 200)
         /\ enResult' = IF status = 200 THEN "true" ELSE "thrown"
    /\ enPc' = "done"
    /\ UNCHANGED enCalls
    /\ UNCHANGED <<auxVars, pipelineVars, embedVars, retryVars, indexVars, cacheVars, hedgeVars>>

EnsureNext == EnsureCall \/ EnsureGet \/ EnsurePut

SpecEnsure == EnsureInit /\ [][EnsureNext]_vars

\* C18: whenever the collection already exists ensureCollection issues no
\* create request and returns success; it issues a create request only when
\* the collection is absent.
C18_CreateOnlyWhenAbsent ==
    /\ \A k \in 1..Len(enLog) : enLog[k].method = "PUT" => ~enLog[k].existed
    /\ (enPc = "done" /\ enLog # <<>> /\ enLog[Len(enLog)].existed) => enResult = "true"

(***************************************************************************)
(* Harness of the diversification trigger: shouldDiversify is applied to   *)
(* a score-sorted list, with the endpoint's arguments (8, 0.55) and with   *)
(* others.                                                                 *)
(***************************************************************************)

MaxTriggerItems == 4

SdTopNs == { 2, 3, 8 }
SdThresholds == { 25, 55, 100 }

TriggerInit ==
    /\ sdPc = "start"
    /\ sdItems \in { l \in UNION { [1..n -> MmItemSet] : n \in 0..MaxTriggerItems } : IsSortedByScore(l) }
    /\ sdTopN \in SdTopNs
    /\ sdThreshold \in SdThresholds
    /\ sdOut = FALSE
    /\ PipelineIdle
    /\ ClientIdle
    /\ OrdersIdle
    /\ ChainIdle

ShouldDiversify ==
    /\ sdPc = "start"
    /\ sdOut' = shouldDiversify(sdItems, sdTopN, sdThreshold)
    /\ sdPc' = "done"
    /\ UNCHANGED <<sdItems, sdTopN, sdThreshold>>
    /\ UNCHANGED <<pipelineVars, clientVars, ordersVars, chainVars>>

TriggerNext == ShouldDiversify

SpecTrigger == TriggerInit /\ [][TriggerNext]_vars

\* the pairs i < j of the first min(N, |items|) items
TopPairs == { pr \in (1..Min(sdTopN, Len(sdItems))) \X (1..Min(sdTopN, Len(sdItems))) : pr[1] < pr[2] }

\* Jaccard similarity of the token sets of items i and j, as inter and union
PairInter(pr) == Cardinality(_itemTokens(sdItems[pr[1]]) \cap _itemTokens(sdItems[pr[2]]))
PairUnion(pr) == Cardinality(_itemTokens(sdItems[pr[1]]) \cup _itemTokens(sdItems[pr[2]]))

\* the similarity of the pair is greater than the threshold
Exceeds(pr) == 100 * PairInter(pr) > sdThreshold * PairUnion(pr)

\* the similarity of the pair is the threshold or greater
Reaches(pr) == PairUnion(pr) # 0 /\ 100 * PairInter(pr) >= sdThreshold * PairUnion(pr)

\* C21: shouldDiversify(items, N, threshold) is true if and only if, among the
\* pairs of the first min(N, |items|) items, strictly more than half have a
\* Jaccard similarity that exceeds the threshold.
C21_TriggerIffMajorityExceeds ==
    sdPc = "done" =>
        (sdOut <=> 2 * Cardinality({ pr \in TopPairs : Exceeds(pr) }) > Cardinality(TopPairs))

\* C21 as the code has it: true if and only if at least three items are
\* looked at and strictly more than half of their pairs have a similarity that
\* is the threshold or greater.
C21_TriggerIffMajorityReaches ==
    sdPc = "done" =>
        (sdOut <=> (/\ Min(sdTopN, Len(sdItems)) >= 3
                    /\ 2 * Cardinality({ pr \in TopPairs : Reaches(pr) }) > Cardinality(TopPairs)))

\* The trigger fired although no pair exceeds the threshold: the pairs that
\* count sit exactly on it.
C21_Witness ==
    /\ sdPc = "done"
    /\ sdOut
    /\ Len(sdItems) >= 3
    /\ \A pr \in TopPairs : ~Exceeds(pr)
    /\ \E i, j \in 1..Len(sdItems) : sdItems[i] # sdItems[j]

(***************************************************************************)
(* The catalog endpoints and their rows cache.  GET /orders and            *)
(* GET /ordersPaged answer from cacheOrders while it is fresh and read the *)
(* sheet otherwise; /updateTeam and /addTeam write the sheet and reset     *)
(* the cache.  Requests run concurrently: a handler runs from one await to *)
(* the next without interruption, and the requests to the sheet take time. *)
(***************************************************************************)

\* const CACHE_TTL = 15 * 1000, in seconds
CACHE_TTL == 15

\* cacheOrders.data && now() - cacheOrders.ts < CACHE_TTL
ordersCacheFresh(cache, nowTs) == cache.data # NoRows /\ nowTs - cache.ts < CACHE_TTL

\* cacheOrders = { data: null, ts: 0 }
resetOrdersCache(cache) == EmptyOrdersCache

MaxReads == 2
MaxWrites == 1
MaxClock == 20
ClockStep == 10

ReadKinds == { "/orders", "/ordersPaged" }
WriteKinds == { "/updateTeam", "/addTeam" }

OrdersInit ==
    /\ odSheet = 0
    /\ odCache = EmptyOrdersCache
    /\ odNow = 0
    /\ odReqs = {}
    /\ odAcked = 0
    /\ odAnswers = {}
    /\ odReads = 0
    /\ odWrites = 0
    /\ PipelineIdle
    /\ ClientIdle
    /\ TriggerIdle
    /\ ChainIdle

OrdersTick ==
    /\ odNow + ClockStep <= MaxClock
    /\ odNow' = odNow + ClockStep
    /\ UNCHANGED <<odSheet, odCache, odReqs, odAcked, odAnswers, odReads, odWrites>>
    /\ UNCHANGED <<pipelineVars, clientVars, triggerVars, chainVars>>

\* GET /orders or GET /ordersPaged up to its first await: a fresh cache
\* answers at once, otherwise the request goes on to read the sheet
StartRead ==
    /\ odReads < MaxReads
    /\ \E kind \in ReadKinds :
         IF ordersCacheFresh(odCache, odNow)
         THEN /\ odAnswers' = odAnswers \cup
                    { [id |-> odReads + 1, kind |-> kind, rows |-> odCache.data,
                       acked |-> odAcked, cached |-> TRUE] }
              /\ UNCHANGED odReqs
         ELSE /\ odReqs' = odReqs \cup
                    { [id |-> odReads + 1, kind |-> kind, pc |-> "fetch", rows |-> NoRows,
                       acked |-> odAcked] }
              /\ UNCHANGED odAnswers
    /\ odReads' = odReads + 1
    /\ UNCHANGED <<odSheet, odCache, odNow, odAcked, odWrites>>
    /\ UNCHANGED <<pipelineVars, clientVars, triggerVars, chainVars>>

\* the sheet service executes the values.get of fetchSheetWithRetry
SheetGet ==
    /\ \E r \in odReqs :
         /\ r.kind \in ReadKinds
         /\ r.pc = "fetch"
         /\ odReqs' = (odReqs \ { r }) \cup { [r EXCEPT !.pc = "fetched", !.rows = odSheet] }
    /\ UNCHANGED <<odSheet, odCache, odNow, odAcked, odAnswers, odReads, odWrites>>
    /\ UNCHANGED <<pipelineVars, clientVars, triggerVars, chainVars>>

\* fetchSheetWithRetry resolves: cacheOrders = { data: rows, ts: now() } and
\* the answer is built from the rows
ReadResolves ==
    /\ \E r \in odReqs :
         /\ r.kind \in ReadKinds
         /\ r.pc = "fetched"
         /\ odCache' = [data |-> r.rows, ts |-> odNow]
         /\ odAnswers' = odAnswers \cup
               { [id |-> r.id, kind |-> r.kind, rows |-> r.rows, acked |-> r.acked,
                  cached |-> FALSE] }
         /\ odReqs' = odReqs \ { r }
    /\ UNCHANGED <<odSheet, odNow, odAcked, odReads, odWrites>>
    /\ UNCHANGED <<pipelineVars, clientVars, triggerVars, chainVars>>

\* fetchSheetWithRetry throws: the catch answers without rows ([] or 500)
\* and leaves the cache alone
ReadThrows ==
    /\ \E r \in odReqs :
         /\ r.kind \in ReadKinds
         /\ odReqs' = odReqs \ { r }
    /\ UNCHANGED <<odSheet, odCache, odNow, odAcked, odAnswers, odReads, odWrites>>
    /\ UNCHANGED <<pipelineVars, clientVars, triggerVars, chainVars>>

\* /updateTeam or /addTeam up to the await of its write request
StartWrite ==
    /\ odWrites < MaxWrites
    /\ \E kind \in WriteKinds :
         odReqs' = odReqs \cup
             { [id |-> MaxReads + odWrites + 1, kind |-> kind, pc |-> "write", rows |-> NoRows,
                acked |-> odAcked] }
    /\ odWrites' = odWrites + 1
    /\ UNCHANGED <<odSheet, odCache, odNow, odAcked, odAnswers, odReads>>
    /\ UNCHANGED <<pipelineVars, clientVars, triggerVars, chainVars>>

\* the sheet service executes the batchUpdate or the append
SheetWrite ==
    /\ \E r \in odReqs :
         /\ r.kind \in WriteKinds
         /\ r.pc = "write"
         /\ odSheet' = odSheet + 1
         /\ odReqs' = (odReqs \ { r }) \cup { [r EXCEPT !.pc = "written", !.rows = odSheet + 1] }
    /\ UNCHANGED <<odCache, odNow, odAcked, odAnswers, odReads, odWrites>>
    /\ UNCHANGED <<pipelineVars, clientVars, triggerVars, chainVars>>

\* the write request resolves: res.status(200).json({ success: true }) and
\* cacheOrders = { data: null, ts: 0 }
WriteResolves ==
    /\ \E r \in odReqs :
         /\ r.kind \in WriteKinds
         /\ r.pc = "written"
         /\ odAcked' = Max(odAcked, r.rows)
         /\ odCache' = resetOrdersCache(odCache)
         /\ odReqs' = odReqs \ { r }
    /\ UNCHANGED <<odSheet, odNow, odAnswers, odReads, odWrites>>
    /\ UNCHANGED <<pipelineVars, clientVars, triggerVars, chainVars>>

\* the write request throws: the catch answers 500, the cache stays
WriteThrows ==
    /\ \E r \in odReqs :
         /\ r.kind \in WriteKinds
         /\ odReqs' = odReqs \ { r }
    /\ UNCHANGED <<odSheet, odCache, odNow, odAcked, odAnswers, odReads, odWrites>>
    /\ UNCHANGED <<pipelineVars, clientVars, triggerVars, chainVars>>

OrdersNext ==
    \/ OrdersTick
    \/ StartRead
    \/ SheetGet
    \/ ReadResolves
    \/ ReadThrows
    \/ StartWrite
    \/ SheetWrite
    \/ WriteResolves
    \/ WriteThrows

SpecOrders == OrdersInit /\ [][OrdersNext]_vars

\* C29: under every interleaving, once /updateTeam or /addTeam has responded
\* with success, every /orders or /ordersPaged request that starts afterwards
\* is answered from rows read after that write, never from rows that were
\* read before the write and cached.
C29_ReadsSeeAckedWrites ==
    \A a \in odAnswers : a.rows >= a.acked

(***************************************************************************)
(* Harness of the cursor chain over a large store.  A client sends the     *)
(* same query and limit again and again, each time with the next_cursor of *)
(* the previous response.  Only the sizes matter for the cursors: the      *)
(* store is a number of points of which every `perName` consecutive ones   *)
(* share a display name, the query matches all of them, and the re-rank,   *)
(* which neither adds nor removes items, is left out; the pool of a page   *)
(* is the de-duplicated list of the names among the hits.                  *)
(***************************************************************************)

MaxCorpus == 1200

CcPoints == { 0, 30, PoolCap, MaxCorpus }
CcPerName == { 1, 2 }
CcLimits == 0..MaxPageSize

CeilDiv(a, b) == (a + b - 1) \div b

\* the names of the first `limit` points of the store, nearest first
nearestNames(corpus, limit) ==
    [i \in 1..Min(limit, corpus.points) |-> CeilDiv(i, corpus.perName)]

\* dedupeByTeamNameScore on hits in which the points of a name are adjacent
\* and the first of them scores highest: one item per name, in hit order
poolOfNames(names) ==
    [j \in 1..Cardinality(Range(names)) |-> j]

\* POST /searchPaged for a non-empty query with vectors enabled, as the
\* envelope of its response
chainResponse(limitReq, cursor, corpus, upstreamOk) ==
    LET pageSize == pageSizeFor(limitReq)
        page     == IF cursor = Null THEN 1 ELSE cursorPage(cursor)
    IN  IF ~upstreamOk
        THEN [status |-> 500, page |-> page, count |-> 0, next_cursor |-> Null, total_estimate |-> 0]
        ELSE TheOne({ [status |-> r.status, page |-> r.page, count |-> Len(r.items),
                       next_cursor |-> r.next_cursor, total_estimate |-> r.total_estimate] :
                      r \in { pageOf([items |-> poolOfNames(nearestNames(corpus, candidatesK(page, pageSize))),
                                       diversified |-> FALSE], page, pageSize) } })

ChainInit ==
    /\ ccCorpus \in [points : CcPoints, perName : CcPerName]
    /\ ccLimit \in CcLimits
    /\ ccLast = NoEnvelope
    /\ ccRequests = 0
    /\ PipelineIdle
    /\ ClientIdle
    /\ TriggerIdle
    /\ OrdersIdle

\* the client's next request: the first page, or the page of the last cursor
FollowCursor ==
    /\ ccRequests = 0 \/ ccLast.next_cursor # Null
    /\ \E upstreamOk \in BOOLEAN :
         ccLast' = chainResponse(ccLimit, ccLast.next_cursor, ccCorpus, upstreamOk)
    /\ ccRequests' = ccRequests + 1
    /\ UNCHANGED <<ccCorpus, ccLimit>>
    /\ UNCHANGED <<pipelineVars, clientVars, triggerVars, ordersVars>>

ChainNext == FollowCursor

SpecChain == ChainInit /\ [][ChainNext]_vars

\* C30: for every corpus and every page size in 1..50, a client that starts
\* at page 1 of /searchPaged and follows next_cursor receives next_cursor =
\* null after at most ceil(1000 / pageSize) requests.
C30_ChainEnds ==
    ccRequests >= CeilDiv(1000, pageSizeFor(ccLimit)) => ccLast.next_cursor = Null

\* A chain over a store of more than 1000 names, 50 per page, has reached
\* its twentieth and last page.
C30_Witness ==
    /\ ccRequests = 20
    /\ pageSizeFor(ccLimit) = 50
    /\ ccCorpus.points > 1000
    /\ ccLast.status = 200
    /\ ccLast.page = 20
    /\ ccLast.count = 50
    /\ ccLast.total_estimate = 1000
    /\ ccLast.next_cursor = Null
====
